---- MODULE Spec2Model ----
(***************************************************************************)
(* Model of the WingAI client (src/src/App.tsx): the collection of image   *)
(* records, the filename policy, the batch pipeline against the analysis   *)
(* backend, landmark point edits and preview-handle bookkeeping.           *)
(*                                                                         *)
(* Strings are sequences of one-character strings, so that trimming,       *)
(* lower-casing, extension splitting and counter suffixes are computed     *)
(* the way the code computes them.  An optional field of a record is a     *)
(* sequence of length 0 (undefined) or 1 (the value).                      *)
(***************************************************************************)
EXTENDS Integers, Sequences, FiniteSets, TLC

(***************************************************************************)
(* Bounds of the model                                                     *)
(***************************************************************************)
\* preview handles (URL.createObjectURL results) handed out in one run
MaxUrls == 3
\* batches (processImagesWithBackend calls with non-empty input) started in one run
MaxBatches == 2
\* updatePoint calls in one run
MaxEdits == 1

(***************************************************************************)
(* Program constants                                                       *)
(***************************************************************************)
UPLOAD_MAX_EDGE == 256
\* coords.length === 38
VectorLength == 38

(***************************************************************************)
(* Optional values                                                         *)
(***************************************************************************)
Undefined == <<>>
Some(v) == <<v>>
IsDefined(o) == Len(o) = 1
Get(o) == o[1]

(***************************************************************************)
(* Strings                                                                 *)
(***************************************************************************)
Upper == <<"A","B","C","D","E","F","G","H","I","J","K","L","M",
           "N","O","P","Q","R","S","T","U","V","W","X","Y","Z">>
Lower == <<"a","b","c","d","e","f","g","h","i","j","k","l","m",
           "n","o","p","q","r","s","t","u","v","w","x","y","z">>
Digits == <<"0","1","2","3","4","5","6","7","8","9">>

LowerChar(c) ==
  IF \E i \in 1..26 : Upper[i] = c
    THEN Lower[CHOOSE i \in 1..26 : Upper[i] = c]
    ELSE c

\* String.prototype.toLowerCase
toLowerCase(s) == [i \in 1..Len(s) |-> LowerChar(s[i])]

IsDigit(c) == \E i \in 1..10 : Digits[i] = c
DigitValue(c) == (CHOOSE i \in 1..10 : Digits[i] = c) - 1

\* String.prototype.trim (the only white space of the model is " ")
RECURSIVE TrimLeft(_)
TrimLeft(s) == IF s # <<>> /\ Head(s) = " " THEN TrimLeft(Tail(s)) ELSE s
RECURSIVE TrimRight(_)
TrimRight(s) ==
  IF s # <<>> /\ s[Len(s)] = " " THEN TrimRight(SubSeq(s, 1, Len(s) - 1)) ELSE s
\* trim that removes nothing (a faulty variant, for C16)
trimNothing(s) == s

trim(s) == TrimRight(TrimLeft(s))

\* String.prototype.endsWith
endsWith(s, suffix) ==
  /\ Len(s) >= Len(suffix)
  /\ SubSeq(s, Len(s) - Len(suffix) + 1, Len(s)) = suffix

\* String.prototype.lastIndexOf("."), 0-based, -1 when there is none
lastIndexOfDot(s) ==
  IF \E i \in 1..Len(s) : s[i] = "."
    THEN (CHOOSE i \in 1..Len(s) :
            s[i] = "." /\ \A j \in (i + 1)..Len(s) : s[j] # ".") - 1
    ELSE -1

\* s.replace(/\.[^.]+$/, ""): drops the last dot and what follows it, when
\* at least one character follows it
StripExtension(s) ==
  LET d == lastIndexOfDot(s) IN
  IF d >= 0 /\ d + 1 < Len(s) THEN SubSeq(s, 1, d) ELSE s

DotPng == <<".","p","n","g">>
DotDwPng == <<".","d","w",".","p","n","g">>

\* /\.dw\.png$/i.test(s)
HasDwPng(s) == endsWith(toLowerCase(s), DotDwPng)

\* s.replace(/\.dw\.png$/i, "")
StripDwPng(s) == IF HasDwPng(s) THEN SubSeq(s, 1, Len(s) - 7) ELSE s

\* String(n) for a natural number
RECURSIVE NumberToString(_)
NumberToString(n) ==
  IF n < 10 THEN <<Digits[n + 1]>>
  ELSE NumberToString(n \div 10) \o <<Digits[(n % 10) + 1]>>

\* Number(digits) for a non-empty string of decimal digits
RECURSIVE ParseDigits(_)
ParseDigits(s) ==
  IF s = <<>> THEN 0
  ELSE 10 * ParseDigits(SubSeq(s, 1, Len(s) - 1)) + DigitValue(s[Len(s)])

(***************************************************************************)
(* Filename policy                                                         *)
(***************************************************************************)
ImagePng == <<"i","m","a","g","e",".","p","n","g">>
ImageDwPng == <<"i","m","a","g","e",".","d","w",".","p","n","g">>

\* toDwPngFilename that leaves the name as it is (a faulty variant, for C18)
toDwPngFilenameKept(name) == name

toPngFilename(name) ==
  LET trimmed == trim(name) IN
  IF trimmed = <<>> THEN ImagePng
  ELSE StripExtension(trimmed) \o DotPng

toDwPngFilename(name) ==
  LET trimmed == trim(name) IN
  IF trimmed = <<>> THEN ImageDwPng
  ELSE IF HasDwPng(trimmed) THEN trimmed
  ELSE StripExtension(trimmed) \o DotDwPng

splitFilename(name) ==
  LET trimmed == trim(name)
      lastDot == lastIndexOfDot(trimmed)
  IN
  IF endsWith(toLowerCase(trimmed), DotDwPng)
    THEN [base |-> SubSeq(trimmed, 1, Len(trimmed) - 7),
          ext  |-> SubSeq(trimmed, Len(trimmed) - 6, Len(trimmed))]
  ELSE IF lastDot > 0
    THEN [base |-> SubSeq(trimmed, 1, lastDot),
          ext  |-> SubSeq(trimmed, lastDot + 1, Len(trimmed))]
  ELSE [base |-> trimmed, ext |-> <<>>]

\* base.match(/^(.*)\((\d+)\)$/): the position (1-based) of the "(" that
\* opens a trailing "(digits)", or 0 when base has no such suffix
CounterStart(base) ==
  LET n == Len(base) IN
  IF n >= 3 /\ base[n] = ")" /\ IsDigit(base[n - 1])
       /\ \E i \in 1..(n - 2) :
            base[i] = "(" /\ \A j \in (i + 1)..(n - 1) : IsDigit(base[j])
    THEN CHOOSE i \in 1..(n - 2) :
           base[i] = "(" /\ \A j \in (i + 1)..(n - 1) : IsDigit(base[j])
    ELSE 0

Max(a, b) == IF a >= b THEN a ELSE b
Min(a, b) == IF a <= b THEN a ELSE b

Candidate(root, counter, ext) ==
  root \o <<"(">> \o NumberToString(counter) \o <<")">> \o ext

\* ProbeCounter without the loop (a faulty variant, for C13)
ProbeCounterNone(root, counter, ext, used) == counter

\* the while loop of ensureUniqueFilenameFromSet: the first counter at or
\* above the start whose candidate is not used
RECURSIVE ProbeCounter(_, _, _, _)
ProbeCounter(root, counter, ext, used) ==
  IF toLowerCase(Candidate(root, counter, ext)) \in used
    THEN ProbeCounter(root, counter + 1, ext, used)
    ELSE counter

\* CounterName that always starts at 2 (a faulty variant, for C35)
CounterNameFromTwo(parts, used) ==
  LET open == CounterStart(parts.base)
      root == IF open > 0 THEN SubSeq(parts.base, 1, open - 1) ELSE parts.base
  IN Candidate(root, ProbeCounter(root, 2, parts.ext, used), parts.ext)

\* lines 79-96: the name built from the parts of the desired name
CounterName(parts, used) ==
  LET open == CounterStart(parts.base)
      root == IF open > 0 THEN SubSeq(parts.base, 1, open - 1) ELSE parts.base
      start == IF open > 0
                 THEN Max(2, ParseDigits(SubSeq(parts.base, open + 1,
                                                Len(parts.base) - 1)) + 1)
                 ELSE 2
  IN Candidate(root, ProbeCounter(root, start, parts.ext, used), parts.ext)

\* ensureUniqueFilenameFromSet(desiredName, used): the name it returns;
\* the set it leaves behind is used \cup {toLowerCase(name)}
ensureUniqueFilenameFromSet(desiredName, used) ==
  IF toLowerCase(desiredName) \notin used THEN desiredName
  ELSE CHOOSE name \in {CounterName(parts, used) :
                          parts \in {splitFilename(desiredName)}} : TRUE

(***************************************************************************)
(* Files the user can pick, and the other inputs of the operations         *)
(***************************************************************************)
NameAPng == <<"a",".","p","n","g">>
NameAJpg == <<"A",".","j","p","g">>
NameBJpg == <<"B",".","j","p","g">>
NameBlank == <<" ">>
NameAbsent == <<"z">>

\* a File: name, size, lastModified and type as the browser reports them;
\* w and h are the natural size of the picture it holds
FileA1 == [name |-> NameAPng, size |-> 1, lastModified |-> 1,
           type |-> "image/png", w |-> 300, h |-> 200]
FileA2 == [name |-> NameAPng, size |-> 2, lastModified |-> 1,
           type |-> "image/png", w |-> 4, h |-> 2]
FileJ == [name |-> NameAJpg, size |-> 1, lastModified |-> 2,
          type |-> "image/jpeg", w |-> 4, h |-> 2]
Files == {FileA1, FileA2, FileJ}

\* a picture this program exported, added again
FileD == [name |-> <<"a",".","d","w",".","p","n","g">>, size |-> 3,
          lastModified |-> 3, type |-> "image/png", w |-> 4, h |-> 2]

\* the file lists handed to addFiles and addFilesForReview; the short
\* sessions pick one file at a time
SingleFiles == {<<FileA1>>, <<FileJ>>}
FileLists == {<<f>> : f \in Files} \cup {<<FileA1, FileA2>>, <<FileA2, FileJ>>}

\* the names typed into the rename box
RenameInputs == {NameAPng, NameBJpg, NameBlank}

\* the names typed in the renaming sessions: with another extension, blank,
\* with nothing before the dot, and with the .dw.png suffix
NameDotX == <<".","x">>
NameCDwPng == <<"c",".","d","w",".","p","n","g">>
RenameNames == {NameBJpg, NameBlank, NameDotX, NameCDwPng}

\* the coordinates and point indexes handed to updatePoint
EditCoords == {-500, 3, 3000}
EditPoints == {-1, 0, 18, 19}

fileKey(file) == <<file.name, file.size, file.lastModified>>

\* /\.jpe?g$/i.test(file.name) or the MIME type
isJpegFile(file) ==
  \/ file.type = "image/jpeg"
  \/ endsWith(toLowerCase(file.name), <<".","j","p","g">>)
  \/ endsWith(toLowerCase(file.name), <<".","j","p","e","g">>)

(***************************************************************************)
(* State                                                                   *)
(***************************************************************************)
VARIABLES
  imageFiles,   \* useState<ImageFile[]>: the collection
  step,         \* "upload" | "review"
  reviewIndex,  \* the review cursor (0-based, as in the code)
  processing,   \* {inProgress, completed, total}
  batches,      \* the processImagesWithBackend calls that have not settled
  nextUrl,      \* the next handle URL.createObjectURL returns
  revoked,      \* the handles passed to URL.revokeObjectURL
  started,      \* number of batches started so far
  edits,        \* number of updatePoint calls so far
  call          \* the calls of a function made on its own: what a test
                \* harness holds (the used set, the arguments and results)

vars == <<imageFiles, step, reviewIndex, processing, batches, nextUrl,
          revoked, started, edits, call>>

\* no function has been called on its own
NoCall == [op |-> "none"]

\* the record addFiles and addFilesForReview create for a file
NewImage(file, url) ==
  [filename |-> file.name, file |-> file, previewUrl |-> url,
   status |-> "new", vector |-> Undefined, check |-> Undefined,
   width |-> Undefined, height |-> Undefined, error |-> Undefined]

Init ==
  /\ imageFiles = <<>>
  /\ step = "upload"
  /\ reviewIndex = 0
  /\ processing = [inProgress |-> FALSE, completed |-> 0, total |-> 0]
  /\ batches = <<>>
  /\ nextUrl = 1
  /\ revoked = {}
  /\ started = 0
  /\ edits = 0
  /\ call = NoCall

Range(s) == {s[i] : i \in 1..Len(s)}
Filenames(files) == [i \in 1..Len(files) |-> files[i].filename]
LowerNames(files) == {toLowerCase(files[i].filename) : i \in 1..Len(files)}
Urls(files) == {files[i].previewUrl : i \in 1..Len(files)}

RECURSIVE SelectSeq2(_, _)
\* Array.prototype.filter on the filename
SelectSeq2(files, name) ==
  IF files = <<>> THEN <<>>
  ELSE IF Head(files).filename # name
    THEN <<Head(files)>> \o SelectSeq2(Tail(files), name)
    ELSE SelectSeq2(Tail(files), name)

(***************************************************************************)
(* Intake                                                                  *)
(***************************************************************************)
\* the loop of addFiles / addFilesForReview: the records created for the
\* files whose key is not among the keys seen, with handles from url on
RECURSIVE IntakeLoop(_, _, _)
IntakeLoop(files, existingKeys, url) ==
  IF files = <<>> THEN <<>>
  ELSE IF fileKey(Head(files)) \in existingKeys
    THEN IntakeLoop(Tail(files), existingKeys, url)
    ELSE <<NewImage(Head(files), url)>>
           \o IntakeLoop(Tail(files), existingKeys \cup {fileKey(Head(files))},
                         url + 1)

ExistingKeys(files) == {fileKey(files[i].file) : i \in 1..Len(files)}

addFiles(files) ==
  LET newFiles == IntakeLoop(files, ExistingKeys(imageFiles), nextUrl) IN
  /\ step = "upload"
  /\ nextUrl + Len(newFiles) - 1 <= MaxUrls
  /\ imageFiles' = imageFiles \o newFiles
  /\ nextUrl' = nextUrl + Len(newFiles)
  /\ UNCHANGED <<step, reviewIndex, processing, batches, revoked, started,
                 edits, call>>

(***************************************************************************)
(* Removal                                                                 *)
(***************************************************************************)
\* the updater of removeFile: the handle it revokes (prevFiles.find) and
\* the collection it leaves (prevFiles.filter)
RemoveRevokes(files, name) ==
  IF \E i \in 1..Len(files) : files[i].filename = name
    THEN {files[CHOOSE i \in 1..Len(files) :
                  /\ files[i].filename = name
                  /\ \A j \in 1..(i - 1) : files[j].filename # name].previewUrl}
    ELSE {}

removeFile(name) ==
  /\ step = "upload"
  /\ revoked' = revoked \cup RemoveRevokes(imageFiles, name)
  /\ imageFiles' = SelectSeq2(imageFiles, name)
  /\ UNCHANGED <<step, reviewIndex, processing, batches, nextUrl, started,
                 edits, call>>

clearFiles ==
  /\ step = "upload"
  /\ revoked' = revoked \cup Urls(imageFiles)
  /\ imageFiles' = <<>>
  /\ UNCHANGED <<step, reviewIndex, processing, batches, nextUrl, started,
                 edits, call>>

resetAll ==
  /\ step = "review"
  /\ revoked' = revoked \cup Urls(imageFiles)
  /\ imageFiles' = <<>>
  /\ step' = "upload"
  /\ reviewIndex' = 0
  /\ UNCHANGED <<processing, batches, nextUrl, started, edits, call>>

\* ReviewImages.handleDelete: the Delete button of the review step
handleDelete ==
  /\ step = "review"
  /\ reviewIndex < Len(imageFiles)
  /\ IF Len(imageFiles) <= 1
       THEN /\ revoked' = revoked \cup Urls(imageFiles)
            /\ imageFiles' = <<>>
            /\ step' = "upload"
            /\ reviewIndex' = 0
       ELSE LET name == imageFiles[reviewIndex + 1].filename IN
            /\ revoked' = revoked \cup RemoveRevokes(imageFiles, name)
            /\ imageFiles' = SelectSeq2(imageFiles, name)
            /\ reviewIndex' = IF reviewIndex < Len(imageFiles) - 1
                                THEN reviewIndex ELSE reviewIndex - 1
            /\ step' = step
  /\ UNCHANGED <<processing, batches, nextUrl, started, edits, call>>

(***************************************************************************)
(* Rename                                                                  *)
(***************************************************************************)
\* ensureUniqueFilename(desiredName, currentIndex, files), index 0-based
ensureUniqueFilename(desiredName, currentIndex, files) ==
  ensureUniqueFilenameFromSet(
    desiredName,
    {toLowerCase(files[i].filename) : i \in (1..Len(files)) \ {currentIndex + 1}})

\* the name renameFile builds from the record's name and the typed name
RenameTarget(originalName, trimmed) ==
  LET lastDot == lastIndexOfDot(originalName)
      originalExt == IF lastDot > 0
                       THEN SubSeq(originalName, lastDot + 1, Len(originalName))
                       ELSE <<>>
  IN
  IF HasDwPng(originalName)
    THEN StripExtension(StripDwPng(trimmed)) \o DotDwPng
  ELSE IF Len(originalExt) > 0
    THEN StripExtension(trimmed) \o originalExt
  ELSE trimmed

\* the updater of renameFile
RenameResult(prevFiles, index, newName) ==
  IF index < 0 \/ index >= Len(prevFiles) THEN prevFiles
  ELSE IF trim(newName) = <<>> THEN prevFiles
  ELSE
    LET target == prevFiles[index + 1]
        finalName == RenameTarget(target.filename, trim(newName))
        uniqueName == ensureUniqueFilename(finalName, index, prevFiles)
    IN [prevFiles EXCEPT ![index + 1].filename = uniqueName]

renameFile(index, newName) ==
  /\ imageFiles' = RenameResult(imageFiles, index, newName)
  /\ UNCHANGED <<step, reviewIndex, processing, batches, nextUrl, revoked,
                 started, edits, call>>

(***************************************************************************)
(* Point edits                                                             *)
(***************************************************************************)
Truthy(o) == IsDefined(o) /\ Get(o) # 0

\* Clamp with the upper limit left out (a faulty variant, for C8)
ClampLowOnly(v, limit) == Max(0, v)

\* Math.min(limit, Math.max(0, v))
Clamp(v, limit) == Min(limit, Max(0, v))

\* EditedCheck with the flag left as it is (a faulty variant, for C10)
EditedCheckKept(check) == check

\* the check flag updatePoint leaves on the edited record
EditedCheck(check) == IF check = Some(TRUE) THEN Some(FALSE) ELSE check

\* EditApplies without the test of the point index (a faulty variant, for
\* C11)
EditAppliesAnyPoint(files, imageIndex, pointIndex) ==
  /\ imageIndex >= 0 /\ imageIndex < Len(files)
  /\ IsDefined(files[imageIndex + 1].vector)
  /\ Truthy(files[imageIndex + 1].width)
  /\ Truthy(files[imageIndex + 1].height)

\* updatePoint reaches the assignments for this record
EditApplies(files, imageIndex, pointIndex) ==
  /\ imageIndex >= 0 /\ imageIndex < Len(files)
  /\ IsDefined(files[imageIndex + 1].vector)
  /\ Truthy(files[imageIndex + 1].width)
  /\ Truthy(files[imageIndex + 1].height)
  /\ pointIndex * 2 >= 0
  /\ pointIndex * 2 + 1 < Len(Get(files[imageIndex + 1].vector))

\* EditedFile writing one place too far in the vector (a faulty variant,
\* for C39)
EditedFileShifted(file, pointIndex, x, y) ==
  LET base == pointIndex * 2 + 1
      nextVector == [c \in 1..Len(Get(file.vector)) |->
                       IF c = base + 1 THEN Clamp(x, Get(file.width))
                       ELSE IF c = base + 2 THEN Clamp(y, Get(file.height))
                       ELSE Get(file.vector)[c]]
  IN [file EXCEPT !.vector = Some(nextVector), !.check = EditedCheck(file.check)]

\* the record updatePoint's map callback returns for the edited record
EditedFile(file, pointIndex, x, y) ==
  LET base == pointIndex * 2
      nextVector == [Get(file.vector) EXCEPT
                       ![base + 1] = Clamp(x, Get(file.width)),
                       ![base + 2] = Clamp(y, Get(file.height))]
  IN [file EXCEPT !.vector = Some(nextVector), !.check = EditedCheck(file.check)]

updatePoint(imageIndex, pointIndex, x, y) ==
  /\ step = "review"
  /\ edits < MaxEdits
  /\ edits' = edits + 1
  /\ imageFiles' =
       IF EditApplies(imageFiles, imageIndex, pointIndex)
         THEN [imageFiles EXCEPT ![imageIndex + 1] =
                 EditedFile(imageFiles[imageIndex + 1], pointIndex, x, y)]
         ELSE imageFiles
  /\ UNCHANGED <<step, reviewIndex, processing, batches, nextUrl, revoked,
                 started, call>>

(***************************************************************************)
(* The backend and the asynchronous steps of one record's pipeline         *)
(***************************************************************************)
\* A response of POST /analyze.  arrived: fetch resolved; ok: response.ok;
\* coords: data.coords after .map(Number), each element with its
\* Number.isFinite; check: data.check with its typeof.
Coord(v) == [finite |-> TRUE, value |-> v]
NotANumber == [finite |-> FALSE, value |-> 0]
JsonBoolean(b) == [type |-> "boolean", truthy |-> b, text |-> <<>>]
JsonString(t) == [type |-> "string", truthy |-> t # <<>>, text |-> t]
JsonOther(b) == [type |-> "other", truthy |-> b, text |-> <<>>]

Response(arrived, ok, coords, check) ==
  [arrived |-> arrived, ok |-> ok, coords |-> coords, check |-> check]

\* every kind of response: no response, a non-2xx status, well-formed
\* ones, a short array and one holding a non-number
AllResponses ==
  { Response(FALSE, FALSE, <<>>, JsonOther(FALSE)),
    Response(TRUE, FALSE, <<>>, JsonOther(FALSE)),
    Response(TRUE, TRUE, [i \in 1..VectorLength |-> Coord(1)], JsonBoolean(TRUE)),
    Response(TRUE, TRUE, [i \in 1..VectorLength |-> Coord(500)],
             JsonString(<<"F","a","l","s","e">>)),
    Response(TRUE, TRUE, [i \in 1..(VectorLength - 1) |-> Coord(1)],
             JsonBoolean(TRUE)),
    Response(TRUE, TRUE,
             [i \in 1..VectorLength |-> IF i = 3 THEN NotANumber ELSE Coord(1)],
             JsonBoolean(TRUE)) }

\* the responses the backend gives in the runs of the pipeline
Responses ==
  { Response(FALSE, FALSE, <<>>, JsonOther(FALSE)),
    Response(TRUE, TRUE, [i \in 1..VectorLength |-> Coord(1)], JsonBoolean(TRUE)),
    Response(TRUE, TRUE, [i \in 1..VectorLength |-> Coord(500)],
             JsonString(<<"F","a","l","s","e">>)),
    Response(TRUE, TRUE, [i \in 1..(VectorLength - 1) |-> Coord(1)],
             JsonBoolean(TRUE)) }

\* validCoords without the length test (a faulty variant, for C12)
validCoordsAnyLength(coords) == \A i \in 1..Len(coords) : coords[i].finite

\* coords.length === 38 && coords.every(Number.isFinite)
validCoords(coords) ==
  /\ Len(coords) = VectorLength
  /\ \A i \in 1..Len(coords) : coords[i].finite

\* the coercion of data.check
CoerceCheck(check) ==
  IF check.type = "boolean" THEN check.truthy
  ELSE IF check.type = "string"
    THEN toLowerCase(check.text) = <<"t","r","u","e">>
  ELSE check.truthy

\* what analyzeImageWithBackend does with a response: the error it throws,
\* or none
AnalysisError(resp) ==
  IF ~resp.arrived THEN Some("Failed to fetch")
  ELSE IF ~resp.ok THEN Some("Backend error")
  ELSE IF ~validCoords(resp.coords) THEN Some("Invalid coords from backend.")
  ELSE Undefined

\* hasDimensions of processImagesWithBackend
hasDimensions(width, height) ==
  /\ IsDefined(width) /\ Get(width) > 0
  /\ IsDefined(height) /\ Get(height) > 0

\* One record of a batch.  rec is `prepared` while the pipeline runs and
\* the returned record once pc = "finished"; width and height are the
\* locals of the map callback; pc is the await the pipeline is suspended
\* at; loadable: the handle was live when its load was started; outcome
\* (history): "wellformed" when the remote call returned a well-formed
\* response, "failed" when the pipeline threw.
Task(rec, width, height, pc, loadable, outcome) ==
  [rec |-> rec, width |-> width, height |-> height, pc |-> pc,
   loadable |-> loadable, outcome |-> outcome]

\* lines 418-426: the record returned after a successful analysis
DoneRecord(prepared, width, height, resp) ==
  [prepared EXCEPT
     !.filename = toDwPngFilename(prepared.filename),
     !.vector = Some([i \in 1..Len(resp.coords) |-> resp.coords[i].value]),
     !.check = Some(CoerceCheck(resp.check)),
     !.status = "done",
     !.width = width,
     !.height = height]

\* lines 427-437: the record returned from the catch block
ErrorRecord(prepared, width, height, message) ==
  [prepared EXCEPT
     !.status = "error", !.error = Some(message),
     !.width = width, !.height = height]

\* the catch and finally blocks of the map callback: the record is finished
FailedTask(prepared, width, height, message) ==
  Task(ErrorRecord(prepared, width, height, message), width, height,
       "finished", TRUE, "failed")

\* analyzeImageWithBackend up to its first await: resizeImageForUpload
\* returns the file at once when the longest edge fits, else it loads it
AfterDimensions(prepared, width, height) ==
  IF ~hasDimensions(width, height)
    THEN FailedTask(prepared, width, height, "Invalid image dimensions.")
  ELSE IF Max(Get(width), Get(height)) <= UPLOAD_MAX_EDGE
    THEN Task(prepared, width, height, "fetch", TRUE, "none")
  ELSE Task(prepared, width, height, "resize", TRUE, "none")

\* lines 390-401: after normalizeJpegToPng
AfterNormalize(prepared, width, height, dead) ==
  IF hasDimensions(width, height)
    THEN AfterDimensions(prepared, width, height)
    ELSE Task(prepared, width, height, "probe",
              prepared.previewUrl \notin dead, "none")

\* the map callback up to its first await
StartTask(image, dead) ==
  IF isJpegFile(image.file)
    THEN Task(image, image.width, image.height, "convert", TRUE, "none")
    ELSE AfterNormalize(image, image.width, image.height, dead)

\* convertJpegToPng: the File it builds (the size of the encoded blob is
\* modelled as the source size plus 100)
PngFile(file, targetName) ==
  [file EXCEPT !.name = targetName, !.size = file.size + 100,
               !.type = "image/png"]

\* normalizeJpegToPng after a successful conversion
NormalizedImage(image, url) ==
  [image EXCEPT
     !.filename = toPngFilename(image.filename),
     !.file = PngFile(image.file, toPngFilename(image.filename)),
     !.previewUrl = url]

(***************************************************************************)
(* Batches                                                                 *)
(***************************************************************************)
\* NextCompleted without the increment (a faulty variant, for C3)
NextCompletedStuck(prev) == prev.completed

\* setProcessing((prev) => ({...prev, completed: Math.min(prev.total, prev.completed + 1)}))
NextCompleted(prev) == Min(prev.total, prev.completed + 1)

\* UniqueName without the uniqueness pass (a faulty variant, for C5)
UniqueNameUnchecked(desiredName, used) == desiredName

\* line 449: the name a processed record is given
UniqueName(desiredName, used) == ensureUniqueFilenameFromSet(desiredName, used)

\* lines 447-453: the names given to the processed records, in order (each
\* name is computed once, as the map callback does)
RECURSIVE UniqueNames(_, _)
UniqueNames(names, used) ==
  IF names = <<>> THEN <<>>
  ELSE CHOOSE result \in
         {<<uniqueName>> \o UniqueNames(rest, used \cup {toLowerCase(uniqueName)}) :
            uniqueName \in {UniqueName(Head(names), used)},
            rest \in {Tail(names)}} : TRUE

\* what processImagesWithBackend returns once every record has finished
BatchResult(batch) ==
  CHOOSE result \in
    {[k \in 1..Len(batch.tasks) |-> [batch.tasks[k].rec EXCEPT !.filename = names[k]]] :
       names \in {UniqueNames([k \in 1..Len(batch.tasks) |-> batch.tasks[k].rec.filename],
                              {toLowerCase(batch.existing[i]) :
                                 i \in 1..Len(batch.existing)})}} : TRUE

RemoveAt(s, b) == SubSeq(s, 1, b - 1) \o SubSeq(s, b + 1, Len(s))

AllFinished(tasks) == \A k \in 1..Len(tasks) : tasks[k].pc = "finished"

\* A batch: kind is the caller ("process": processImages, "review":
\* addFilesForReview), existing the filenames of the `existing` argument;
\* alone (history): no other batch has been in flight together with it.
StartBatch(kind, images, existing) ==
  /\ started < MaxBatches
  /\ started' = started + 1
  /\ processing' = [inProgress |-> TRUE, completed |-> 0, total |-> Len(images)]
  /\ batches' =
       [b \in 1..Len(batches) |-> [batches[b] EXCEPT !.alone = FALSE]]
       \o <<[id |-> started + 1, kind |-> kind, existing |-> existing,
             tasks |-> [k \in 1..Len(images) |-> StartTask(images[k], revoked)],
             alone |-> batches = <<>>]>>

\* processImagesWithBackend without the test for no images (a faulty
\* variant, for C20)
processImagesWithBackendAlways(kind, images, existing) ==
  StartBatch(kind, images, existing)

\* processImagesWithBackend up to its first await: with no images it
\* returns [] and nothing else happens (line 378)
processImagesWithBackend(kind, images, existing) ==
  IF images = <<>>
    THEN UNCHANGED <<processing, batches, started>>
    ELSE StartBatch(kind, images, existing)

\* Record k of batch b moves on to task t; when t is finished the finally
\* block of the map callback advances the completion counter.
Advance(b, k, t) ==
  /\ batches' = [batches EXCEPT ![b].tasks[k] = t]
  /\ processing' =
       IF t.pc = "finished"
         THEN [processing EXCEPT !.completed = NextCompleted(processing)]
         ELSE processing
  /\ UNCHANGED imageFiles

\* Promise.all has resolved: the continuation of processImagesWithBackend
\* (lines 447-456) and of its caller (line 465 or 489) run in the same
\* turn of the event loop as the last record's finally block, so nothing
\* else runs while a batch is ready to settle.
ReadyToSettle(b) == b \in 1..Len(batches) /\ AllFinished(batches[b].tasks)
SettlePending == \E b \in 1..Len(batches) : ReadyToSettle(b)

settle(b) ==
  /\ ReadyToSettle(b)
  /\ processing' = [processing EXCEPT !.inProgress = FALSE]
  /\ batches' = RemoveAt(batches, b)
  /\ imageFiles' = IF batches[b].kind = "process"
                     THEN BatchResult(batches[b])
                     ELSE imageFiles \o BatchResult(batches[b])
  /\ UNCHANGED <<step, reviewIndex, nextUrl, revoked, started, edits, call>>

Waiting(b, k, pc) ==
  /\ b \in 1..Len(batches)
  /\ k \in 1..Len(batches[b].tasks)
  /\ batches[b].tasks[k].pc = pc

\* convertDone with a failed conversion failing the record (a faulty
\* variant, for C37)
convertDoneFatal(b, k, ok) ==
  /\ Waiting(b, k, "convert")
  /\ LET t == batches[b].tasks[k] IN
     IF ok
       THEN /\ nextUrl <= MaxUrls
            /\ nextUrl' = nextUrl + 1
            /\ revoked' = revoked \cup {t.rec.previewUrl}
            /\ Advance(b, k, AfterNormalize(NormalizedImage(t.rec, nextUrl),
                                            t.width, t.height,
                                            revoked \cup {t.rec.previewUrl}))
       ELSE /\ Advance(b, k, FailedTask(t.rec, t.width, t.height,
                                        "Failed to convert image"))
            /\ UNCHANGED <<nextUrl, revoked>>
  /\ UNCHANGED <<step, reviewIndex, started, edits, call>>

\* convertJpegToPng resolves or rejects (normalizeJpegToPng, lines 308-325)
convertDone(b, k, ok) ==
  /\ Waiting(b, k, "convert")
  /\ LET t == batches[b].tasks[k] IN
     IF ok
       THEN /\ nextUrl <= MaxUrls
            /\ nextUrl' = nextUrl + 1
            /\ revoked' = revoked \cup {t.rec.previewUrl}
            /\ Advance(b, k, AfterNormalize(NormalizedImage(t.rec, nextUrl),
                                            t.width, t.height,
                                            revoked \cup {t.rec.previewUrl}))
       ELSE /\ Advance(b, k, AfterNormalize(t.rec, t.width, t.height, revoked))
            /\ UNCHANGED <<nextUrl, revoked>>
  /\ UNCHANGED <<step, reviewIndex, started, edits, call>>

\* loadImageDimensions(prepared.previewUrl) resolves or rejects
probeDone(b, k, ok) ==
  /\ Waiting(b, k, "probe")
  /\ LET t == batches[b].tasks[k] IN
     IF ok
       THEN /\ t.loadable
            /\ Advance(b, k, AfterDimensions(t.rec, Some(t.rec.file.w),
                                             Some(t.rec.file.h)))
       ELSE Advance(b, k, FailedTask(t.rec, t.width, t.height,
                                     "Failed to load image"))
  /\ UNCHANGED <<step, reviewIndex, nextUrl, revoked, started, edits, call>>

\* resizeImageForUpload resolves or rejects
resizeDone(b, k, ok) ==
  /\ Waiting(b, k, "resize")
  /\ LET t == batches[b].tasks[k] IN
     IF ok
       THEN Advance(b, k, [t EXCEPT !.pc = "fetch"])
       ELSE Advance(b, k, FailedTask(t.rec, t.width, t.height,
                                     "Failed to resize image"))
  /\ UNCHANGED <<step, reviewIndex, nextUrl, revoked, started, edits, call>>

\* fetch and response.json() settle (analyzeImageWithBackend, lines 338-371)
fetchDone(b, k, resp) ==
  /\ Waiting(b, k, "fetch")
  /\ LET t == batches[b].tasks[k]
         err == AnalysisError(resp)
     IN
     IF IsDefined(err)
       THEN Advance(b, k, FailedTask(t.rec, t.width, t.height, Get(err)))
       ELSE Advance(b, k, Task(DoneRecord(t.rec, t.width, t.height, resp),
                               t.width, t.height, "finished", TRUE, "wellformed"))
  /\ UNCHANGED <<step, reviewIndex, nextUrl, revoked, started, edits, call>>

processImages ==
  /\ step = "upload"
  /\ step' = "review"
  /\ reviewIndex' = 0
  /\ processImagesWithBackend("process", imageFiles, <<>>)
  /\ UNCHANGED <<imageFiles, nextUrl, revoked, edits, call>>

addFilesForReview(files) ==
  LET newFiles == IntakeLoop(files, ExistingKeys(imageFiles), nextUrl) IN
  /\ step = "review"
  /\ reviewIndex < Len(imageFiles)
  /\ newFiles # <<>>
  /\ nextUrl + Len(newFiles) - 1 <= MaxUrls
  /\ nextUrl' = nextUrl + Len(newFiles)
  /\ processImagesWithBackend("review", newFiles, Filenames(imageFiles))
  /\ UNCHANGED <<imageFiles, step, reviewIndex, revoked, edits, call>>

\* the dimension effect (lines 492-522): the load of a record's preview
\* resolves and the size is stored on the records with that handle
dimensionsLoaded(i) ==
  /\ i \in 1..Len(imageFiles)
  /\ ~(IsDefined(imageFiles[i].width) /\ IsDefined(imageFiles[i].height))
  /\ imageFiles' =
       [j \in 1..Len(imageFiles) |->
          IF imageFiles[j].previewUrl = imageFiles[i].previewUrl
            THEN [imageFiles[j] EXCEPT !.width = Some(imageFiles[i].file.w),
                                       !.height = Some(imageFiles[i].file.h)]
            ELSE imageFiles[j]]
  /\ UNCHANGED <<step, reviewIndex, processing, batches, nextUrl, revoked,
                 started, edits, call>>

(***************************************************************************)
(* The review cursor                                                       *)
(***************************************************************************)
\* handleReviewIndexChange (lines 550-553)
handleReviewIndexChange(nextIndex) ==
  /\ step = "review"
  /\ reviewIndex' = nextIndex
  /\ UNCHANGED <<imageFiles, step, processing, batches, nextUrl, revoked,
                 started, edits, call>>

\* the record needs review: the check flag of its analysis is set
Flagged(file) == file.check = Some(TRUE)

\* the first flagged record met from index `from` on (0-based), looking at
\* `left` records and going round after the last; -1 when there is none
RECURSIVE ScanFlagged(_, _, _)
ScanFlagged(files, from, left) ==
  IF left = 0 THEN -1
  ELSE IF Flagged(files[(from % Len(files)) + 1]) THEN from % Len(files)
  ELSE ScanFlagged(files, from + 1, left - 1)

\* NextFlaggedIndex that goes from a flagged record to the record after it,
\* flagged or not (a faulty variant, for C26)
NextFlaggedIndexAnyRecord(files, index) ==
  IF index \in 0..(Len(files) - 1) /\ Flagged(files[index + 1])
    THEN (index + 1) % Len(files)
    ELSE ScanFlagged(files, 0, Len(files))

\* the "next flagged" policy: from a flagged record the next flagged one
\* after it, going round; from any other record the first flagged one
NextFlaggedIndex(files, index) ==
  IF index \in 0..(Len(files) - 1) /\ Flagged(files[index + 1])
    THEN ScanFlagged(files, index + 1, Len(files))
    ELSE ScanFlagged(files, 0, Len(files))

\* the "next flagged" operation of the review step; with no flagged record
\* the cursor stays
nextFlagged ==
  /\ imageFiles # <<>>
  /\ handleReviewIndexChange(
       IF NextFlaggedIndex(imageFiles, reviewIndex) = -1
         THEN reviewIndex
         ELSE NextFlaggedIndex(imageFiles, reviewIndex))

\* ReviewImages renders the record under the cursor; without one it shows
\* "No images to review." and none of its controls (lines 30, 55-57)
ImageShown == step = "review" /\ reviewIndex \in 0..(Len(imageFiles) - 1)

\* the Previous button (lines 488-495), disabled on the first record
previousClick ==
  /\ ImageShown
  /\ ~(reviewIndex <= 0)
  /\ handleReviewIndexChange(Max(0, reviewIndex - 1))

\* the Next button (lines 510-519), disabled on the last record
nextClick ==
  /\ ImageShown
  /\ ~(reviewIndex >= Len(imageFiles) - 1)
  /\ handleReviewIndexChange(Min(Len(imageFiles) - 1, reviewIndex + 1))

\* a click on entry idx of the list of records (line 591)
selectClick(idx) ==
  /\ ImageShown
  /\ idx \in 0..(Len(imageFiles) - 1)
  /\ handleReviewIndexChange(idx)

\* onKeyDown for the arrow keys outside the text fields (lines 189-195)
onKeyDown(key) ==
  /\ ImageShown
  /\ IF key = "ArrowLeft"
       THEN handleReviewIndexChange(IF reviewIndex <= 0 THEN reviewIndex
                                    ELSE reviewIndex - 1)
       ELSE handleReviewIndexChange(IF reviewIndex >= Len(imageFiles) - 1
                                      THEN reviewIndex
                                      ELSE reviewIndex + 1)

(***************************************************************************)
(* Specification                                                           *)
(***************************************************************************)
MaxIndex == Len(imageFiles)

\* the completions of the pending asynchronous steps
AsyncStepWith(responses) ==
  \E b \in 1..Len(batches) : \E k \in 1..Len(batches[b].tasks) :
    \/ \E ok \in BOOLEAN : convertDone(b, k, ok)
    \/ \E ok \in BOOLEAN : probeDone(b, k, ok)
    \/ \E ok \in BOOLEAN : resizeDone(b, k, ok)
    \/ \E resp \in responses : fetchDone(b, k, resp)
AsyncStep == AsyncStepWith(Responses)

SettleStep == \E b \in 1..Len(batches) : settle(b)

AddFilesFrom(lists) == \E files \in lists : addFiles(files)
AddFiles == AddFilesFrom(FileLists)
RemoveFile ==
  \E name \in Range(Filenames(imageFiles)) \cup {NameAbsent} : removeFile(name)
RenameFileFrom(names) ==
  \E index \in 0..MaxIndex : \E newName \in names : renameFile(index, newName)
RenameFile == RenameFileFrom(RenameInputs)
UpdatePoint ==
  \E imageIndex \in 0..MaxIndex : \E pointIndex \in EditPoints :
    \E x \in EditCoords : \E y \in EditCoords :
      updatePoint(imageIndex, pointIndex, x, y)
AddFilesForReviewFrom(lists) == \E files \in lists : addFilesForReview(files)
AddFilesForReview == AddFilesForReviewFrom(FileLists)
DimensionsLoaded == \E i \in 1..Len(imageFiles) : dimensionsLoaded(i)

\* the operations of the user and of the dimension effect
UserStep ==
  \/ AddFiles
  \/ RemoveFile
  \/ clearFiles
  \/ resetAll
  \/ handleDelete
  \/ RenameFile
  \/ UpdatePoint
  \/ processImages
  \/ AddFilesForReview
  \/ DimensionsLoaded

\* The whole program.
Next ==
  \/ SettleStep
  \/ ~SettlePending /\ UserStep
  \/ ~SettlePending /\ AsyncStep

Spec == Init /\ [][Next]_vars

(***************************************************************************)
(* Sessions: the program with the user restricted to some of the           *)
(* operations, so that every behaviour of a session is a behaviour of      *)
(* Spec.                                                                   *)
(***************************************************************************)
\* the upload step: files are added, renamed and removed, nothing is processed
NextUpload ==
  \/ AddFiles
  \/ RemoveFile
  \/ clearFiles
  \/ RenameFile
  \/ DimensionsLoaded

SpecUpload == Init /\ [][NextUpload]_vars

\* processing: files are added and processed, more are added for review
\* while batches run
NextPipeline ==
  \/ SettleStep
  \/ ~SettlePending /\ AddFiles
  \/ ~SettlePending /\ processImages
  \/ ~SettlePending /\ AddFilesForReview
  \/ ~SettlePending /\ AsyncStep

SpecPipeline == Init /\ [][NextPipeline]_vars

\* two batches: two files are processed together and a third is added
\* for review while they run or afterwards
NextBatches ==
  \/ SettleStep
  \/ ~SettlePending /\ AddFilesFrom({<<FileA2, FileJ>>})
  \/ ~SettlePending /\ processImages
  \/ ~SettlePending /\ AddFilesForReviewFrom({<<FileA1>>})
  \/ ~SettlePending /\ AsyncStep

\* every pending asynchronous step resolves or rejects (the premise of
\* the liveness claim), and the continuation of a resolved Promise.all
\* runs (the microtask queue is drained)
FairBatches ==
  /\ Init
  /\ [][NextBatches]_vars
  /\ WF_vars(~SettlePending /\ AsyncStep)
  /\ WF_vars(SettleStep)

\* processing with resets: the user resets while a batch runs and
\* processes again what the batch leaves in the collection
NextReprocess ==
  \/ SettleStep
  \/ ~SettlePending /\ AddFilesFrom(SingleFiles)
  \/ ~SettlePending /\ processImages
  \/ ~SettlePending /\ resetAll
  \/ ~SettlePending /\ AsyncStep

SpecReprocess == Init /\ [][NextReprocess]_vars

\* review: the processed records are edited
NextReview ==
  \/ SettleStep
  \/ ~SettlePending /\ AddFilesFrom(SingleFiles)
  \/ ~SettlePending /\ processImages
  \/ ~SettlePending /\ UpdatePoint
  \/ ~SettlePending /\ AsyncStep

SpecReview == Init /\ [][NextReview]_vars

\* the backend: files are added and processed, and the backend gives every
\* kind of response
NextResponses ==
  \/ SettleStep
  \/ ~SettlePending /\ AddFilesFrom(SingleFiles)
  \/ ~SettlePending /\ processImages
  \/ ~SettlePending /\ AddFilesForReviewFrom(SingleFiles)
  \/ ~SettlePending /\ DimensionsLoaded
  \/ ~SettlePending /\ AsyncStepWith(AllResponses)

SpecResponses == Init /\ [][NextResponses]_vars

\* renaming: files are added, one of them an exported .dw.png picture, and
\* the records are renamed
NextRename ==
  \/ AddFilesFrom({<<FileA1>>, <<FileA2>>, <<FileD>>})
  \/ RenameFileFrom(RenameNames)

SpecRename == Init /\ [][NextRename]_vars

\* the review cursor: three files are added and processed, and the user
\* goes from flagged record to flagged record
NextCursor ==
  \/ SettleStep
  \/ ~SettlePending /\ AddFilesFrom({<<FileA1, FileA2>>, <<FileJ>>})
  \/ ~SettlePending /\ processImages
  \/ ~SettlePending /\ AsyncStep
  \/ ~SettlePending /\ nextFlagged

SpecCursor == Init /\ [][NextCursor]_vars

\* the one response the backend gives in the runs of the navigation
WellFormedResponses ==
  { Response(TRUE, TRUE, [i \in 1..VectorLength |-> Coord(1)], JsonBoolean(TRUE)) }

\* navigation: three files are added and processed, and the user goes through
\* the records and deletes them, also while the batch runs
NextNavigate ==
  \/ SettleStep
  \/ ~SettlePending /\ AddFilesFrom({<<FileA1, FileA2, FileD>>})
  \/ ~SettlePending /\ processImages
  \/ ~SettlePending /\ AsyncStepWith(WellFormedResponses)
  \/ ~SettlePending /\ handleDelete
  \/ ~SettlePending /\ previousClick
  \/ ~SettlePending /\ nextClick
  \/ ~SettlePending /\ \E idx \in 0..MaxIndex : selectClick(idx)
  \/ ~SettlePending /\ \E key \in {"ArrowLeft", "ArrowRight"} : onKeyDown(key)

SpecNavigate == Init /\ [][NextNavigate]_vars

(***************************************************************************)
(* ensureUniqueFilenameFromSet called on its own: a used set is picked,    *)
(* and names are asked for one after the other against that set as it     *)
(* grows.                                                                  *)
(***************************************************************************)
\* calls in one run
MaxCalls == 3

\* the names (lower case) the used set is drawn from
UsedNames ==
  { <<"a",".","p","n","g">>,
    <<"a","(","2",")",".","p","n","g">>,
    <<"a","(","1","0",")",".","p","n","g">>,
    <<"a",".","d","w",".","p","n","g">>,
    <<".","p","n","g">> }

\* the candidates: plain, upper case, with a counter, with a counter
\* before a carry, .dw.png, with counter 1, and with nothing before the dot
DesiredNames ==
  { <<"a",".","p","n","g">>,
    <<"A",".","P","N","G">>,
    <<"a","(","2",")",".","p","n","g">>,
    <<"a","(","9",")",".","p","n","g">>,
    <<"A",".","d","w",".","p","n","g">>,
    <<"a","(","1",")",".","d","w",".","p","n","g">>,
    <<".","p","n","g">> }

\* UsedAfter without the registration (a faulty variant, for C14)
UsedAfterForgotten(used, name) == used

\* used.add(normalized) / used.add(candidate.toLowerCase())
UsedAfter(used, name) == used \cup {toLowerCase(name)}

ensureUnique(candidate) ==
  /\ call.op = "ensureUnique"
  /\ Len(call.names) < MaxCalls
  /\ call' = CHOOSE next \in
       {[call EXCEPT !.used = UsedAfter(call.used, name),
                     !.candidates = Append(@, candidate),
                     !.names = Append(@, name)] :
          name \in {ensureUniqueFilenameFromSet(candidate, call.used)}} : TRUE
  /\ UNCHANGED <<imageFiles, step, reviewIndex, processing, batches, nextUrl,
                 revoked, started, edits>>

InitNames ==
  /\ imageFiles = <<>>
  /\ step = "upload"
  /\ reviewIndex = 0
  /\ processing = [inProgress |-> FALSE, completed |-> 0, total |-> 0]
  /\ batches = <<>>
  /\ nextUrl = 1
  /\ revoked = {}
  /\ started = 0
  /\ edits = 0
  /\ call \in {[op |-> "ensureUnique", used |-> used, candidates |-> <<>>,
                 names |-> <<>>] : used \in SUBSET UsedNames}

NextNames == \E candidate \in DesiredNames : ensureUnique(candidate)

SpecNames == InitNames /\ [][NextNames]_vars

(***************************************************************************)
(* Bytes and 32-bit words (src/src/utils.tsx).  A Uint8Array is a sequence *)
(* of numbers 0..255; a 32-bit unsigned value is kept as its four bytes,   *)
(* most significant first, so that no number leaves the range of the       *)
(* checker's integers.                                                     *)
(***************************************************************************)
\* a ^ b on the bits of two bytes
RECURSIVE XorBits(_, _)
XorBits(a, b) ==
  IF a = 0 THEN b
  ELSE IF b = 0 THEN a
  ELSE ((a + b) % 2) + 2 * XorBits(a \div 2, b \div 2)

WordXor(u, v) == [i \in 1..4 |-> XorBits(u[i], v[i])]

\* w >>> 1 and w >>> 8
ShiftRight1(w) ==
  [i \in 1..4 |-> (w[i] \div 2) + (IF i > 1 THEN (w[i - 1] % 2) * 128 ELSE 0)]
ShiftRight8(w) == <<0, w[1], w[2], w[3]>>

\* the word of a number below 2^31
ToWord(n) ==
  <<n \div 16777216, (n \div 65536) % 256, (n \div 256) % 256, n % 256>>

\* 0 ^ -1, that is 0xFFFFFFFF
AllOnes == <<255, 255, 255, 255>>

\* a polynomial other than the reflected CRC-32 one (a faulty variant, for C23)
PolynomialPlain == <<4, 193, 29, 183>>

\* 0xedb88320
Polynomial == <<237, 184, 131, 32>>

\* the loop that fills crcTable[n]: k rounds are left
RECURSIVE CrcRounds(_, _)
CrcRounds(c, k) ==
  IF k = 0 THEN c
  ELSE CrcRounds(IF c[4] % 2 = 1 THEN WordXor(Polynomial, ShiftRight1(c))
                                 ELSE ShiftRight1(c),
                 k - 1)

crcTable(n) == CrcRounds(ToWord(n), 8)

\* the loop of crc32 from byte i on
RECURSIVE CrcLoop(_, _, _)
CrcLoop(data, i, crc) ==
  IF i > Len(data) THEN crc
  ELSE CrcLoop(data, i + 1,
               WordXor(ShiftRight8(crc), crcTable(XorBits(crc[4], data[i]))))

crc32(data) == WordXor(CrcLoop(data, 1, AllOnes), AllOnes)

(***************************************************************************)
(* The functions of utils.tsx and the pure parts of the components called  *)
(* on their own: an input is picked, and the function is applied to it.    *)
(***************************************************************************)
\* the application itself does nothing in these runs
AppIdle ==
  /\ imageFiles = <<>>
  /\ step = "upload"
  /\ reviewIndex = 0
  /\ processing = [inProgress |-> FALSE, completed |-> 0, total |-> 0]
  /\ batches = <<>>
  /\ nextUrl = 1
  /\ revoked = {}
  /\ started = 0
  /\ edits = 0

AppUnchanged ==
  UNCHANGED <<imageFiles, step, reviewIndex, processing, batches, nextUrl,
              revoked, started, edits>>

\* a call that has not returned, and its return
Called(op, input) == [op |-> op, input |-> input, returned |-> FALSE]
Return(output) ==
  [op |-> call.op, input |-> call.input, returned |-> TRUE, output |-> output]

\* the ASCII bytes of "123456789"
CheckBytes == <<49, 50, 51, 52, 53, 54, 55, 56, 57>>

\* the byte arrays handed to crc32: every stretch of "123456789", and some
\* arrays of other bytes
CrcInputs ==
  {SubSeq(CheckBytes, i, j) : i \in 1..9, j \in 0..9}
  \cup {<<0>>, <<255>>, <<97>>, <<0, 0, 0, 0>>, AllOnes, <<73, 69, 78, 68>>}

crc32Call ==
  /\ call.op = "crc32"
  /\ ~call.returned
  /\ call' = Return(crc32(call.input))
  /\ AppUnchanged

InitCrc == AppIdle /\ call \in {Called("crc32", data) : data \in CrcInputs}

SpecCrc == InitCrc /\ [][crc32Call]_vars

(***************************************************************************)
(* addPngTextChunk                                                         *)
(***************************************************************************)
PNG_SIGNATURE == <<137, 80, 78, 71, 13, 10, 26, 10>>
TypeTEXt == <<116, 69, 88, 116>>
TypeIEND == <<73, 69, 78, 68>>

\* textEncoder.encode of a string given as its code points (below 2048)
RECURSIVE encode(_)
encode(s) ==
  IF s = <<>> THEN <<>>
  ELSE (IF Head(s) < 128
          THEN <<Head(s)>>
          ELSE <<192 + (Head(s) \div 64), 128 + (Head(s) % 64)>>)
       \o encode(Tail(s))

\* readUint32BE(data, offset), offset 0-based
readUint32BE(data, offset) == SubSeq(data, offset + 1, offset + 4)

\* the number a word stands for, when it is below 2^31
WordValue(w) == ((w[1] * 256 + w[2]) * 256 + w[3]) * 256 + w[4]

\* ChunkOverruns that lets every chunk pass (a faulty variant, for C21)
ChunkOverrunsNever(pngData, offset) == FALSE

\* crcEnd > pngData.length for the chunk at offset, that is
\* length > pngData.length - offset - 12; a length of 2^31 or more exceeds
\* every array
ChunkOverruns(pngData, offset) ==
  LET length == readUint32BE(pngData, offset) IN
  \/ length[1] >= 128
  \/ WordValue(length) > Len(pngData) - offset - 12

\* the while loop of addPngTextChunk from offset on: insertOffset
RECURSIVE FindInsertOffset(_, _)
FindInsertOffset(pngData, offset) ==
  IF offset + 8 > Len(pngData) THEN -1
  ELSE IF ChunkOverruns(pngData, offset) THEN -1
  ELSE IF SubSeq(pngData, offset + 5, offset + 8) = TypeIEND THEN offset
  ELSE FindInsertOffset(pngData,
                        offset + 12 + WordValue(readUint32BE(pngData, offset)))

\* TextChunk with the CRC taken of the data alone (a faulty variant, for C38)
TextChunkCrcOfData(keyword, text) ==
  LET chunkData == encode(keyword) \o <<0>> \o encode(text) IN
  ToWord(Len(chunkData)) \o TypeTEXt \o chunkData \o crc32(chunkData)

\* lines 142-155: the tEXt chunk
TextChunk(keyword, text) ==
  LET chunkData == encode(keyword) \o <<0>> \o encode(text) IN
  ToWord(Len(chunkData)) \o TypeTEXt \o chunkData
    \o crc32(TypeTEXt \o chunkData)

addPngTextChunk(pngData, keyword, text) ==
  IF Len(pngData) < Len(PNG_SIGNATURE) THEN pngData
  ELSE IF \E i \in 1..Len(PNG_SIGNATURE) : pngData[i] # PNG_SIGNATURE[i]
    THEN pngData
  ELSE
    LET insertOffset == FindInsertOffset(pngData, 8) IN
    IF insertOffset = -1 THEN pngData
    ELSE SubSeq(pngData, 1, insertOffset) \o TextChunk(keyword, text)
           \o SubSeq(pngData, insertOffset + 1, Len(pngData))

\* a chunk of a PNG file
Chunk(type, data) ==
  ToWord(Len(data)) \o type \o data \o crc32(type \o data)

\* PNG files: a header chunk and IEND; IEND alone; a chunk holding the
\* letters IEND as data and no IEND chunk; a chunk whose length field has
\* the top bit set before IEND; an IEND chunk announcing one byte of data
\* that is not there; and a file going on after IEND
PngHeaderIend == PNG_SIGNATURE \o Chunk(<<73, 72, 68, 82>>, <<1>>) \o Chunk(TypeIEND, <<>>)
PngIend == PNG_SIGNATURE \o Chunk(TypeIEND, <<>>)
PngNoIend == PNG_SIGNATURE \o Chunk(<<73, 68, 65, 84>>, TypeIEND)
PngHugeLength ==
  PNG_SIGNATURE \o <<255, 255, 255, 255, 73, 68, 65, 84>> \o Chunk(TypeIEND, <<>>)
PngShortIend == PNG_SIGNATURE \o <<0, 0, 0, 1>> \o TypeIEND \o <<0, 0, 0, 0>>
PngAfterIend == PngIend \o Chunk(<<73, 68, 65, 84>>, <<7>>) \o Chunk(TypeIEND, <<>>)
\* a chunk without data before IEND
PngEmptyChunk == PNG_SIGNATURE \o Chunk(<<73, 68, 65, 84>>, <<>>) \o Chunk(TypeIEND, <<>>)
PngFiles ==
  {PngHeaderIend, PngIend, PngNoIend, PngHugeLength, PngShortIend, PngAfterIend,
   PngEmptyChunk}

\* the arrays handed to addPngTextChunk: the files, every file cut short
\* at every length, and the first file with one signature byte changed
PngInputs ==
  UNION {{SubSeq(png, 1, n) : n \in 0..Len(png)} : png \in PngFiles}
  \cup {[PngHeaderIend EXCEPT ![i] = 0] : i \in 1..8}

\* the keyword and the texts: empty, "t" and an e with an acute accent
TextInputs == {<<>>, <<116>>, <<233>>}

addPngTextChunkCall ==
  /\ call.op = "addPngTextChunk"
  /\ ~call.returned
  /\ call' = Return(addPngTextChunk(call.input.pngData, call.input.keyword,
                                    call.input.text))
  /\ AppUnchanged

InitPng ==
  /\ AppIdle
  /\ call \in {Called("addPngTextChunk",
                      [pngData |-> png, keyword |-> <<107>>, text |-> text]) :
                 png \in PngInputs, text \in TextInputs}

SpecPng == InitPng /\ [][addPngTextChunkCall]_vars

(***************************************************************************)
(* createZipBlob                                                           *)
(***************************************************************************)
\* entries in one archive
MaxEntries == 2

\* DataView.setUint16 and setUint32 with littleEndian = true
Uint16LE(n) == <<n % 256, (n \div 256) % 256>>
Uint32LE(n) == <<n % 256, (n \div 256) % 256, (n \div 65536) % 256, n \div 16777216>>
WordLE(w) == <<w[4], w[3], w[2], w[1]>>

\* toDosDateTime; the date is given by its fields in local time
toDosDateTime(date) ==
  [dosTime |-> date.hours * 2048 + date.minutes * 32 + (date.seconds \div 2),
   dosDate |-> (Max(1980, date.year) - 1980) * 512 + date.month * 32 + date.day]

\* entry.name.replace(/\\/g, "/"), on code points
ReplaceBackslashes(name) ==
  [i \in 1..Len(name) |-> IF name[i] = 92 THEN 47 ELSE name[i]]

\* lines 70-83
LocalHeader(nameBytes, data, dos, crc) ==
  <<80, 75, 3, 4>> \o Uint16LE(20) \o Uint16LE(2048) \o Uint16LE(0)
    \o Uint16LE(dos.dosTime) \o Uint16LE(dos.dosDate) \o WordLE(crc)
    \o Uint32LE(Len(data)) \o Uint32LE(Len(data))
    \o Uint16LE(Len(nameBytes)) \o Uint16LE(0) \o nameBytes

\* lines 89-108
CentralHeader(nameBytes, data, dos, crc, localOffset) ==
  <<80, 75, 1, 2>> \o Uint16LE(20) \o Uint16LE(20) \o Uint16LE(2048)
    \o Uint16LE(0) \o Uint16LE(dos.dosTime) \o Uint16LE(dos.dosDate)
    \o WordLE(crc) \o Uint32LE(Len(data)) \o Uint32LE(Len(data))
    \o Uint16LE(Len(nameBytes)) \o Uint16LE(0) \o Uint16LE(0) \o Uint16LE(0)
    \o Uint16LE(0) \o Uint32LE(0) \o Uint32LE(localOffset) \o nameBytes

\* lines 115-124
EndRecord(count, centralSize, centralOffset) ==
  <<80, 75, 5, 6>> \o Uint16LE(0) \o Uint16LE(0) \o Uint16LE(count)
    \o Uint16LE(count) \o Uint32LE(centralSize) \o Uint32LE(centralOffset)
    \o Uint16LE(0)

\* NextOffset that leaves the data out (a faulty variant, for C22)
NextOffsetHeaderOnly(offset, localHeader, data) == offset + Len(localHeader)

\* offset += localHeader.length + data.length
NextOffset(offset, localHeader, data) == offset + Len(localHeader) + Len(data)

\* entries.forEach from entry i on: the file parts and the central parts
RECURSIVE ZipParts(_, _, _)
ZipParts(entries, i, offset) ==
  IF i > Len(entries) THEN [file |-> <<>>, central |-> <<>>, offset |-> offset]
  ELSE
    LET nameBytes == encode(ReplaceBackslashes(entries[i].name))
        data == entries[i].data
        dos == toDosDateTime(entries[i].lastModified)
        crc == crc32(data)
        localHeader == LocalHeader(nameBytes, data, dos, crc)
        rest == ZipParts(entries, i + 1, NextOffset(offset, localHeader, data))
    IN [file |-> localHeader \o data \o rest.file,
        central |-> CentralHeader(nameBytes, data, dos, crc, offset) \o rest.central,
        offset |-> rest.offset]

\* the bytes of the Blob
createZipBlob(entries) ==
  LET parts == ZipParts(entries, 1, 0) IN
  parts.file \o parts.central
    \o EndRecord(Len(entries), Len(parts.central), parts.offset)

\* names: "a.csv", "d\a" and an e with an acute accent; data: none and two
\* bytes; dates: one in 2024 and one before 1980
ZipNames == {<<97, 46, 99, 115, 118>>, <<100, 92, 97>>, <<233>>}
ZipData == {<<>>, <<1, 2>>}
ZipDates ==
  {[year |-> 2024, month |-> 5, day |-> 17, hours |-> 13, minutes |-> 45, seconds |-> 59],
   [year |-> 1970, month |-> 1, day |-> 1, hours |-> 0, minutes |-> 0, seconds |-> 0]}
ZipEntries ==
  {[name |-> name, data |-> data, lastModified |-> date] :
     name \in ZipNames, data \in ZipData, date \in ZipDates}

RECURSIVE SeqsUpTo(_, _)
SeqsUpTo(S, n) ==
  IF n = 0 THEN {<<>>}
  ELSE SeqsUpTo(S, n - 1)
       \cup {Append(s, x) : s \in {t \in SeqsUpTo(S, n - 1) : Len(t) = n - 1}, x \in S}

createZipBlobCall ==
  /\ call.op = "createZipBlob"
  /\ ~call.returned
  /\ call' = Return(createZipBlob(call.input))
  /\ AppUnchanged

InitZip ==
  /\ AppIdle
  /\ call \in {Called("createZipBlob", entries) :
                 entries \in SeqsUpTo(ZipEntries, MaxEntries)}

SpecZip == InitZip /\ [][createZipBlobCall]_vars

(***************************************************************************)
(* resizeImageForUpload: the size of the canvas                            *)
(***************************************************************************)
\* Math.round(edge * (UPLOAD_MAX_EDGE / longestEdge)): the nearest whole
\* number, a half going up
RoundScaled(edge, longestEdge) ==
  (2 * edge * UPLOAD_MAX_EDGE + longestEdge) \div (2 * longestEdge)

\* TargetEdge without the scaling (a faulty variant, for C24)
TargetEdgeUnscaled(edge, longestEdge) == edge

\* Math.max(1, Math.round(edge * scale))
TargetEdge(edge, longestEdge) == Max(1, RoundScaled(edge, longestEdge))

\* lines 121-136: what resizeImageForUpload does before it draws
resizeImageForUpload(file, width, height) ==
  LET longestEdge == Max(width, height) IN
  IF longestEdge <= 0 THEN [threw |-> "Invalid dimensions for resize."]
  ELSE IF longestEdge <= UPLOAD_MAX_EDGE THEN [returned |-> file]
  ELSE [canvas |-> [width |-> TargetEdge(width, longestEdge),
                    height |-> TargetEdge(height, longestEdge)]]

\* the widths and heights handed in
Edges == {0, 1, 2, 3, 255, 256, 257, 300, 511, 512, 513, 1000, 1536, 2000, 4000}

resizeImageForUploadCall ==
  /\ call.op = "resizeImageForUpload"
  /\ ~call.returned
  /\ call' = Return(resizeImageForUpload(call.input.file, call.input.width,
                                         call.input.height))
  /\ AppUnchanged

InitResize ==
  /\ AppIdle
  /\ call \in {Called("resizeImageForUpload",
                      [file |-> FileA1, width |-> width, height |-> height]) :
                 width \in Edges, height \in Edges}

SpecResize == InitResize /\ [][resizeImageForUploadCall]_vars

(***************************************************************************)
(* The CSV export of ReviewImages (handleDownload)                         *)
(***************************************************************************)
\* records in one export
MaxRows == 2

\* csvEscape: the value between quotes, every quote in it doubled
RECURSIVE DoubleQuotes(_)
DoubleQuotes(value) ==
  IF value = <<>> THEN <<>>
  ELSE (IF Head(value) = "\"" THEN <<"\"", "\"">> ELSE <<Head(value)>>)
       \o DoubleQuotes(Tail(value))

csvEscape(value) == <<"\"">> \o DoubleQuotes(value) \o <<"\"">>

\* Array.prototype.join
RECURSIVE Join(_, _)
Join(parts, separator) ==
  IF parts = <<>> THEN <<>>
  ELSE IF Len(parts) = 1 THEN parts[1]
  ELSE parts[1] \o separator \o Join(Tail(parts), separator)

\* Math.round(x).toString() for a whole number
RoundToString(x) ==
  IF x < 0 THEN <<"-">> \o NumberToString(0 - x) ELSE NumberToString(x)

\* headers: file, x1..x19, y1..y19
CsvHeaders ==
  <<<<"f","i","l","e">>>>
    \o [idx \in 1..19 |-> <<"x">> \o NumberToString(idx)]
    \o [idx \in 1..19 |-> <<"y">> \o NumberToString(idx)]

\* vector[at] rendered (at 0-based): empty unless it is a number
CsvValue(vector, at) ==
  IF at + 1 <= Len(vector) THEN RoundToString(vector[at + 1]) ELSE <<>>

\* the values of one record: the name, the 19 x and then the 19 y
CsvValues(img) ==
  LET vector == IF IsDefined(img.vector) THEN Get(img.vector) ELSE <<>> IN
  <<img.filename>>
    \o [i \in 1..19 |-> CsvValue(vector, (i - 1) * 2)]
    \o [i \in 1..19 |-> CsvValue(vector, (i - 1) * 2 + 1)]

CsvLine(values) ==
  Join([k \in 1..Len(values) |-> csvEscape(values[k])], <<",">>)

\* the content handed to downloadFile("points.csv", ...)
exportCsv(images) ==
  Join(<<CsvLine(CsvHeaders)>> \o [i \in 1..Len(images) |-> CsvLine(CsvValues(images[i]))],
       <<"\n">>)

\* the records exported: with no vector, with 38 equal numbers, with the
\* numbers 101..138, and with a negative number; plain names, a name with a
\* quote and a comma, and a name with a line break
CsvVectors ==
  {Undefined,
   Some([k \in 1..VectorLength |-> 1]),
   Some([k \in 1..VectorLength |-> 100 + k]),
   Some([k \in 1..VectorLength |-> IF k = 2 THEN 0 - 7 ELSE k])}
CsvNames == {NameAPng, <<"q","\"",",">>, <<"n","\n">>}
CsvImages ==
  {[filename |-> name, vector |-> vector] : name \in CsvNames, vector \in CsvVectors}

exportCsvCall ==
  /\ call.op = "exportCsv"
  /\ ~call.returned
  /\ call' = Return(exportCsv(call.input))
  /\ AppUnchanged

InitCsv ==
  /\ AppIdle
  /\ call \in {Called("exportCsv", images) : images \in SeqsUpTo(CsvImages, MaxRows)}

SpecCsv == InitCsv /\ [][exportCsvCall]_vars

(***************************************************************************)
(* The while loop of ensureUniqueFilenameFromSet, one iteration at a time. *)
(* The same call is run twice, each run on its own copy of the used set.   *)
(***************************************************************************)
\* lines 72-88: the call up to the loop; a name that is free is returned
\* at once
StartRun(desiredName, used) ==
  IF toLowerCase(desiredName) \notin used
    THEN [pc |-> "returned", root |-> <<>>, counter |-> 0, ext |-> <<>>,
          used |-> used \cup {toLowerCase(desiredName)}, result |-> desiredName]
    ELSE LET parts == splitFilename(desiredName)
             open == CounterStart(parts.base)
         IN
         [pc |-> "loop",
          root |-> IF open > 0 THEN SubSeq(parts.base, 1, open - 1) ELSE parts.base,
          counter |-> IF open > 0
                        THEN Max(2, ParseDigits(SubSeq(parts.base, open + 1,
                                                       Len(parts.base) - 1)) + 1)
                        ELSE 2,
          ext |-> parts.ext, used |-> used, result |-> <<>>]

\* LoopStep that does not advance the counter (a faulty variant, for C36)
LoopStepStuck(run) ==
  IF toLowerCase(Candidate(run.root, run.counter, run.ext)) \in run.used
    THEN run
    ELSE [run EXCEPT !.pc = "returned",
                     !.used = @ \cup {toLowerCase(Candidate(run.root, run.counter, run.ext))},
                     !.result = Candidate(run.root, run.counter, run.ext)]

\* lines 89-95: the test of the while loop, and its body or what follows it
LoopStep(run) ==
  IF toLowerCase(Candidate(run.root, run.counter, run.ext)) \in run.used
    THEN [run EXCEPT !.counter = @ + 1]
    ELSE [run EXCEPT !.pc = "returned",
                     !.used = @ \cup {toLowerCase(Candidate(run.root, run.counter, run.ext))},
                     !.result = Candidate(run.root, run.counter, run.ext)]

\* run r of the call makes one iteration
ensureUniqueLoop(r) ==
  /\ call.op = "ensureUniqueLoop"
  /\ call.runs[r].pc = "loop"
  /\ call' = [call EXCEPT !.runs[r] = LoopStep(call.runs[r])]
  /\ UNCHANGED <<imageFiles, step, reviewIndex, processing, batches, nextUrl,
                 revoked, started, edits>>

InitLoop ==
  /\ AppIdle
  /\ call \in {[op |-> "ensureUniqueLoop", candidate |-> candidate, used |-> used,
                runs |-> <<StartRun(candidate, used), StartRun(candidate, used)>>] :
                 candidate \in DesiredNames, used \in SUBSET UsedNames}

NextLoop == \E r \in 1..2 : ensureUniqueLoop(r)

\* a call that has been made goes on running
FairLoop ==
  /\ InitLoop
  /\ [][NextLoop]_vars
  /\ \A r \in 1..2 : WF_vars(ensureUniqueLoop(r))

(***************************************************************************)
(* The while loop of addPngTextChunk, one iteration at a time              *)
(***************************************************************************)
\* lines 137-158: up to the loop; an array without the signature is
\* returned before it
StartWalk(pngData) ==
  IF \/ Len(pngData) < Len(PNG_SIGNATURE)
     \/ \E i \in 1..Len(PNG_SIGNATURE) : pngData[i] # PNG_SIGNATURE[i]
    THEN [pc |-> "returned", offset |-> 0, insertOffset |-> -1]
    ELSE [pc |-> "loop", offset |-> 8, insertOffset |-> -1]

\* WalkStep that stays on a chunk that is not IEND (a faulty variant, for
\* C40)
WalkStepStuck(pngData, run) ==
  IF run.offset + 8 > Len(pngData) THEN [run EXCEPT !.pc = "after"]
  ELSE IF ChunkOverruns(pngData, run.offset) THEN [run EXCEPT !.pc = "after"]
  ELSE IF SubSeq(pngData, run.offset + 5, run.offset + 8) = TypeIEND
    THEN [run EXCEPT !.insertOffset = run.offset, !.pc = "after"]
  ELSE run

\* lines 159-176: the test of the while loop and one pass through its body
WalkStep(pngData, run) ==
  IF run.offset + 8 > Len(pngData) THEN [run EXCEPT !.pc = "after"]
  ELSE IF ChunkOverruns(pngData, run.offset) THEN [run EXCEPT !.pc = "after"]
  ELSE IF SubSeq(pngData, run.offset + 5, run.offset + 8) = TypeIEND
    THEN [run EXCEPT !.insertOffset = run.offset, !.pc = "after"]
  ELSE [run EXCEPT !.offset =
          run.offset + 12 + WordValue(readUint32BE(pngData, run.offset))]

\* the call makes one iteration
chunkWalk ==
  /\ call.op = "chunkWalk"
  /\ call.run.pc = "loop"
  /\ call' = [call EXCEPT !.run = WalkStep(call.pngData, call.run)]
  /\ AppUnchanged

InitWalk ==
  /\ AppIdle
  /\ call \in {[op |-> "chunkWalk", pngData |-> png, run |-> StartWalk(png)] :
                 png \in PngInputs}

\* a call that has been made goes on running
FairWalk ==
  /\ InitWalk
  /\ [][chunkWalk]_vars
  /\ WF_vars(chunkWalk)

(***************************************************************************)
(* Claims                                                                  *)
(***************************************************************************)
NameADwPng == <<"a",".","d","w",".","p","n","g">>
NameA2DwPng == <<"A","(","2",")",".","d","w",".","p","n","g">>

Finished(task) == task.pc = "finished"
FinishedCount(tasks) == Cardinality({k \in 1..Len(tasks) : Finished(tasks[k])})
BatchUrls ==
  UNION {{batches[b].tasks[k].rec.previewUrl : k \in 1..Len(batches[b].tasks)} :
           b \in 1..Len(batches)}
InFlight(id) == \E b \in 1..Len(batches) : batches[b].id = id
CounterSuffixed(name) == CounterStart(splitFilename(name).base) > 0

\* the records a settling batch hands to its caller, as they arrive in the
\* collection: all of it for processImages, its tail for addFilesForReview
Returned(b) ==
  IF batches[b].kind = "process" THEN imageFiles'
  ELSE SubSeq(imageFiles', Len(imageFiles) + 1, Len(imageFiles'))

\* C1: after any sequence of addFiles and renameFile operations no two
\* records of the collection have the same filename up to letter case.
C1_FilenamesUnique ==
  \A i \in 1..Len(imageFiles) : \A j \in 1..Len(imageFiles) :
    i # j => toLowerCase(imageFiles[i].filename) # toLowerCase(imageFiles[j].filename)

\* C2: in a batch every record whose remote call returned a well-formed
\* response is done and carries 38 landmarks, every record whose pipeline
\* failed has status error, an error message and no landmarks, and the
\* batch returns one record per submitted record.
C2_FailureIsolated ==
  \A b \in 1..Len(batches) :
    /\ \A k \in 1..Len(batches[b].tasks) :
         LET t == batches[b].tasks[k] IN
         Finished(t) =>
           /\ t.outcome = "wellformed" =>
                /\ t.rec.status = "done"
                /\ IsDefined(t.rec.vector)
                /\ Len(Get(t.rec.vector)) = VectorLength
           /\ t.outcome = "failed" =>
                /\ t.rec.status = "error"
                /\ IsDefined(t.rec.error)
                /\ ~IsDefined(t.rec.vector)
    /\ ReadyToSettle(b) => Len(BatchResult(batches[b])) = Len(batches[b].tasks)

\* C3: while a batch runs with no other batch in flight, total stays the
\* number of its records, completed never decreases, grows by exactly one
\* with each record that finishes (whichever finishes first), never
\* exceeds total, and equals total when the batch settles.
C3_ProgressCounter ==
  [][\A b \in 1..Len(batches) :
       batches[b].alone =>
         /\ processing.total = Len(batches[b].tasks)
         /\ processing.completed <= processing.total
         /\ batches' = <<>> => /\ processing.completed = processing.total
                               /\ processing'.completed = processing.total
         /\ (Len(batches') = 1 /\ batches'[1].alone) =>
              /\ processing'.total = processing.total
              /\ processing'.completed >= processing.completed
              /\ processing'.completed - processing.completed
                   = FinishedCount(batches'[1].tasks) - FinishedCount(batches[b].tasks)
    ]_vars

\* C3 witness: a batch of two records running alone, the second record
\* finished before the first, counted once.
C3_Witness ==
  \E b \in 1..Len(batches) :
    /\ batches[b].alone
    /\ Len(batches[b].tasks) = 2
    /\ ~Finished(batches[b].tasks[1])
    /\ Finished(batches[b].tasks[2])
    /\ processing.completed = 1

\* the liveness half of C4: every record of a batch reaches status done
\* or error, and every batch ends, leaving inProgress false
EveryRecordSettles ==
  /\ \A id \in 1..MaxBatches : \A k \in 1..MaxUrls :
       (\E b \in 1..Len(batches) :
          /\ batches[b].id = id
          /\ k <= Len(batches[b].tasks)
          /\ ~Finished(batches[b].tasks[k]))
       ~> (\E b \in 1..Len(batches) :
             /\ batches[b].id = id
             /\ k <= Len(batches[b].tasks)
             /\ Finished(batches[b].tasks[k])
             /\ batches[b].tasks[k].rec.status \in {"done", "error"})
  /\ \A id \in 1..MaxBatches :
       InFlight(id) ~> (~InFlight(id) /\ ~processing.inProgress)

\* C4: when every asynchronous step resolves or rejects, every record of
\* a batch reaches status done or error, the step in which it finishes
\* advances the completion counter by one, and every batch ends, leaving
\* inProgress false.
C4_EveryRecordFinishes ==
  /\ EveryRecordSettles
  /\ [][\A b \in 1..Len(batches) : \A c \in 1..Len(batches') :
         \A k \in 1..Len(batches[b].tasks) :
           (/\ batches'[c].id = batches[b].id
            /\ ~Finished(batches[b].tasks[k])
            /\ Finished(batches'[c].tasks[k]))
             => processing'.completed = processing.completed + 1
      ]_vars

\* what C5 says of every batch: the returned names are pairwise distinct
\* up to case and distinct from the names already used
ReturnedNamesFree(b) ==
  LET got == Filenames(Returned(b))
      used == {toLowerCase(batches[b].existing[i]) : i \in 1..Len(batches[b].existing)}
  IN
  /\ Len(got) = Len(batches[b].tasks)
  /\ \A i \in 1..Len(got) : \A j \in 1..Len(got) :
       i # j => toLowerCase(got[i]) # toLowerCase(got[j])
  /\ \A i \in 1..Len(got) : toLowerCase(got[i]) \notin used

\* C5 as stated: ... and of two records of the batch that want the same
\* name the earlier keeps it and the later gets a counter-suffixed name.
C5_EarlierKeepsName ==
  [][\A b \in 1..Len(batches) :
       settle(b) =>
         LET want == [k \in 1..Len(batches[b].tasks) |-> batches[b].tasks[k].rec.filename]
             got == Filenames(Returned(b))
         IN
         /\ ReturnedNamesFree(b)
         /\ \A i \in 1..Len(want) : \A j \in 1..Len(want) :
              (i < j /\ toLowerCase(want[i]) = toLowerCase(want[j])) =>
                /\ got[i] = want[i]
                /\ got[j] # want[j]
                /\ CounterSuffixed(got[j])
    ]_vars

\* C5 as amended: ... and of two records of the batch that want the same
\* name the later gets a counter-suffixed name, and the earlier keeps the
\* name when it is not in the already-used set and has not been given to
\* a record submitted before it.
C5_ReturnedNamesUnique ==
  [][\A b \in 1..Len(batches) :
       settle(b) =>
         LET want == [k \in 1..Len(batches[b].tasks) |-> batches[b].tasks[k].rec.filename]
             got == Filenames(Returned(b))
             used == {toLowerCase(batches[b].existing[i]) :
                        i \in 1..Len(batches[b].existing)}
         IN
         /\ ReturnedNamesFree(b)
         /\ \A i \in 1..Len(want) : \A j \in 1..Len(want) :
              (i < j /\ toLowerCase(want[i]) = toLowerCase(want[j])) =>
                /\ got[j] # want[j]
                /\ CounterSuffixed(got[j])
                /\ (/\ toLowerCase(want[i]) \notin used
                    /\ \A h \in 1..(i - 1) : toLowerCase(got[h]) # toLowerCase(want[i]))
                     => got[i] = want[i]
    ]_vars

\* C5 witness: a batch has returned two records that both wanted
\* a.dw.png up to case; the first kept it, the second got the suffix (2).
C5_Witness ==
  \E i \in 1..Len(imageFiles) : \E j \in 1..Len(imageFiles) :
    /\ i < j
    /\ imageFiles[i].filename = NameADwPng
    /\ imageFiles[j].filename = NameA2DwPng

\* C6: no preview handle is revoked while a record of the collection
\* still references it.
C6_NoReferencedHandleRevoked ==
  \A i \in 1..Len(imageFiles) : imageFiles[i].previewUrl \notin revoked

\* C7: every handle created for a record and referenced neither by the
\* collection nor by a running batch has been revoked.
C7_NoHandleLeaked ==
  \A url \in 1..(nextUrl - 1) :
    (url \notin Urls(imageFiles) /\ url \notin BatchUrls) => url \in revoked

\* C8: an effective point edit stores coordinates with 0 <= x <= width and
\* 0 <= y <= height of the edited record, whatever x and y were passed.
C8_EditWithinImage ==
  [][\A imageIndex \in 0..MaxIndex : \A pointIndex \in EditPoints :
       \A x \in EditCoords : \A y \in EditCoords :
         (/\ updatePoint(imageIndex, pointIndex, x, y)
          /\ EditApplies(imageFiles, imageIndex, pointIndex)) =>
           LET file == imageFiles'[imageIndex + 1]
               vector == Get(file.vector)
           IN
           /\ 0 <= vector[2 * pointIndex + 1]
           /\ vector[2 * pointIndex + 1] <= Get(file.width)
           /\ 0 <= vector[2 * pointIndex + 2]
           /\ vector[2 * pointIndex + 2] <= Get(file.height)
    ]_vars

\* C8 witness: a point has been edited with x far above the width and y
\* far below 0: it sits at (width, 0), which no response of the backend
\* holds.
C8_Witness ==
  \E i \in 1..Len(imageFiles) :
    /\ IsDefined(imageFiles[i].vector)
    /\ IsDefined(imageFiles[i].width)
    /\ Get(imageFiles[i].vector)[1] = Get(imageFiles[i].width)
    /\ Get(imageFiles[i].vector)[2] = 0

\* C9: every landmark coordinate of every record of the collection lies
\* within [0, width] x [0, height] of its record.
C9_CoordinatesWithinImage ==
  \A i \in 1..Len(imageFiles) :
    LET file == imageFiles[i] IN
    (IsDefined(file.vector) /\ IsDefined(file.width) /\ IsDefined(file.height)) =>
      \A c \in 1..Len(Get(file.vector)) :
        /\ 0 <= Get(file.vector)[c]
        /\ Get(file.vector)[c] <= (IF c % 2 = 1 THEN Get(file.width)
                                    ELSE Get(file.height))

\* C10: an effective point edit leaves the check flag of the edited record
\* false, whether it was true or false, and no point edit sets the flag
\* of any record to true.
C10_EditClearsCheck ==
  [][\A imageIndex \in 0..MaxIndex : \A pointIndex \in EditPoints :
       \A x \in EditCoords : \A y \in EditCoords :
         updatePoint(imageIndex, pointIndex, x, y) =>
           /\ Len(imageFiles') = Len(imageFiles)
           /\ \A j \in 1..Len(imageFiles) :
                imageFiles'[j].check = Some(TRUE) => imageFiles[j].check = Some(TRUE)
           /\ (/\ EditApplies(imageFiles, imageIndex, pointIndex)
               /\ imageFiles[imageIndex + 1].check \in {Some(TRUE), Some(FALSE)})
                => imageFiles'[imageIndex + 1].check = Some(FALSE)
    ]_vars

\* C10 witness: a record analysed with the flag set (the response whose
\* coordinates are all 1 is the flagged one) has had its first point
\* edited, and its flag is false.
C10_Witness ==
  \E i \in 1..Len(imageFiles) :
    /\ IsDefined(imageFiles[i].vector)
    /\ Get(imageFiles[i].vector)[VectorLength] = 1
    /\ Get(imageFiles[i].vector)[1] = 0
    /\ imageFiles[i].check = Some(FALSE)

\* the cases C11 names: a point index outside 0..18, a record index that
\* does not exist, a record without landmarks or without known dimensions
EditRejected(imageIndex, pointIndex) ==
  \/ pointIndex \notin 0..18
  \/ imageIndex \notin 0..(Len(imageFiles) - 1)
  \/ ~IsDefined(imageFiles[imageIndex + 1].vector)
  \/ ~IsDefined(imageFiles[imageIndex + 1].width)
  \/ ~IsDefined(imageFiles[imageIndex + 1].height)

\* C11: updatePoint with a point index outside 0..18, on a record index
\* that does not exist, or on a record without landmarks or without known
\* dimensions leaves the whole collection unchanged.
C11_RejectedEditChangesNothing ==
  [][\A imageIndex \in 0..MaxIndex : \A pointIndex \in EditPoints :
       \A x \in EditCoords : \A y \in EditCoords :
         (/\ updatePoint(imageIndex, pointIndex, x, y)
          /\ EditRejected(imageIndex, pointIndex))
           => imageFiles' = imageFiles
    ]_vars

\* C11 witness: updatePoint has been called, and the analysed record still
\* holds the coordinates of its response (all equal) and its set flag.
C11_Witness ==
  /\ edits > 0
  /\ \E i \in 1..Len(imageFiles) :
       /\ IsDefined(imageFiles[i].vector)
       /\ imageFiles[i].check = Some(TRUE)
  /\ \A i \in 1..Len(imageFiles) :
       IsDefined(imageFiles[i].vector) =>
         \A c \in 1..Len(Get(imageFiles[i].vector)) :
           Get(imageFiles[i].vector)[c] = Get(imageFiles[i].vector)[1]

\* C12: every record that has a landmark vector has one of exactly 38
\* numbers, after any analysis merges and point edits.
C12_VectorLength ==
  /\ \A i \in 1..Len(imageFiles) :
       IsDefined(imageFiles[i].vector) =>
         Len(Get(imageFiles[i].vector)) = VectorLength
  /\ \A b \in 1..Len(batches) : \A k \in 1..Len(batches[b].tasks) :
       IsDefined(batches[b].tasks[k].rec.vector) =>
         Len(Get(batches[b].tasks[k].rec.vector)) = VectorLength

\* C12 witness: an analysed record whose last point has been edited (it
\* sits at (0, 0)) holds 38 numbers.
C12_Witness ==
  \E i \in 1..Len(imageFiles) :
    /\ IsDefined(imageFiles[i].vector)
    /\ Len(Get(imageFiles[i].vector)) = VectorLength
    /\ Get(imageFiles[i].vector)[VectorLength - 1] = 0
    /\ Get(imageFiles[i].vector)[VectorLength] = 0

\* the name the last call returned
LastName == call.names[Len(call.names)]

\* C13: the name ensureUniqueFilenameFromSet returns was not in the used
\* set (compared in lower case) before the call and is in it after the
\* call; when the candidate was absent it is returned unchanged.
C13_EnsureUniqueRegisters ==
  [][\A candidate \in DesiredNames :
       ensureUnique(candidate) =>
         /\ toLowerCase(LastName') \notin call.used
         /\ toLowerCase(LastName') \in call'.used
         /\ toLowerCase(candidate) \notin call.used => LastName' = candidate
    ]_vars

\* C13 witness: one call has returned its candidate unchanged and another
\* a name with a counter, and both are registered.
C13_Witness ==
  /\ call.op = "ensureUnique"
  /\ \E i \in 1..Len(call.names) : call.names[i] = call.candidates[i]
  /\ \E i \in 1..Len(call.names) :
       /\ call.names[i] # call.candidates[i]
       /\ CounterSuffixed(call.names[i])
  /\ \A i \in 1..Len(call.names) : toLowerCase(call.names[i]) \in call.used

\* C14: calls of ensureUniqueFilenameFromSet with the same candidate against
\* the same set, which keeps what the calls register, never return the same
\* name twice (compared in lower case).
C14_NeverSameNameTwice ==
  call.op = "ensureUnique" =>
    \A i \in 1..Len(call.names) : \A j \in 1..Len(call.names) :
      (i < j /\ call.candidates[i] = call.candidates[j]) =>
        toLowerCase(call.names[i]) # toLowerCase(call.names[j])

\* C14 witness: three calls with a.png have returned a.png, a(2).png and
\* a(3).png.
C14_Witness ==
  /\ call.op = "ensureUnique"
  /\ call.candidates = <<NameAPng, NameAPng, NameAPng>>
  /\ call.names = <<NameAPng, <<"a","(","2",")",".","p","n","g">>,
                    <<"a","(","3",")",".","p","n","g">> >>

\* the extension of a name as renameFile reads it: from the last dot on,
\* when the dot is not the first character
ExtensionOf(name) ==
  IF lastIndexOfDot(name) > 0
    THEN SubSeq(name, lastIndexOfDot(name) + 1, Len(name))
    ELSE <<>>

\* renameFile is handed an index with a record and a name that is not blank
Renames(index, newName) ==
  /\ index < Len(imageFiles)
  /\ trim(newName) # <<>>
  /\ renameFile(index, newName)

\* C15: renameFile never changes the extension of a record: a record named
\* *.dw.png (in any case) is still named *.dw.png after every rename with a
\* non-empty name, and a record with another extension still ends in that
\* extension.
C15_RenameKeepsExtension ==
  [][\A index \in 0..MaxIndex : \A newName \in RenameNames :
       Renames(index, newName) =>
         LET originalName == imageFiles[index + 1].filename
             renamed == imageFiles'[index + 1].filename
         IN IF HasDwPng(originalName)
              THEN endsWith(toLowerCase(renamed), DotDwPng)
              ELSE endsWith(renamed, ExtensionOf(originalName))
    ]_vars

\* a name that is empty or only white space
IsBlank(name) == \A i \in 1..Len(name) : name[i] = " "

\* C16: renameFile with a name that is empty or only white space, or with
\* an index that has no record, leaves the collection (and everything else)
\* as it is.
C16_RejectedRenameChangesNothing ==
  [][\A index \in 0..MaxIndex : \A newName \in RenameNames :
       (/\ index >= Len(imageFiles) \/ IsBlank(newName)
        /\ renameFile(index, newName))
         => imageFiles' = imageFiles
    ]_vars

\* C16 witness: two records, the first already renamed; a blank name for the
\* first and a name for an index past the last are both turned down, while
\* the same name for the first record is taken.
C16_Witness ==
  /\ Len(imageFiles) = 2
  /\ imageFiles[1].filename # imageFiles[1].file.name
  /\ RenameResult(imageFiles, 0, NameBlank) = imageFiles
  /\ RenameResult(imageFiles, 2, NameCDwPng) = imageFiles
  /\ RenameResult(imageFiles, 0, NameCDwPng) # imageFiles

\* a record of the collection was made from the file: it holds the file, or
\* the PNG file the conversion made of it
Present(file) ==
  \E i \in 1..Len(imageFiles) :
    \/ fileKey(imageFiles[i].file) = fileKey(file)
    \/ /\ isJpegFile(file)
       /\ imageFiles[i].file = PngFile(file, toPngFilename(file.name))

\* C17: adding files that were all added before and whose records are still
\* in the collection creates no record, no preview handle and no batch:
\* adding the same files twice is adding them once.
C17_IntakeDeduplicates ==
  [][\A files \in FileLists :
       (/\ \A k \in 1..Len(files) : Present(files[k])
        /\ addFiles(files) \/ addFilesForReview(files))
         => /\ imageFiles' = imageFiles
            /\ nextUrl' = nextUrl
            /\ batches' = batches
    ]_vars

\* the response is well-formed: a 2xx status and 38 finite coordinates
WellFormed(resp) ==
  /\ resp.arrived
  /\ resp.ok
  /\ Len(resp.coords) = VectorLength
  /\ \A i \in 1..VectorLength : resp.coords[i].finite

\* the record holds what the response says, the size of its picture and a
\* *.dw.png name (in any case, as toDwPngFilename tests it)
MergedFrom(rec, resp) ==
  /\ rec.status = "done"
  /\ IsDefined(rec.vector)
  /\ Len(Get(rec.vector)) = VectorLength
  /\ \A i \in 1..VectorLength : Get(rec.vector)[i] = resp.coords[i].value
  /\ rec.check = Some(CoerceCheck(resp.check))
  /\ rec.width = Some(rec.file.w)
  /\ rec.height = Some(rec.file.h)
  /\ HasDwPng(rec.filename)

\* a done record as a batch merges it: landmarks, a flag, the size of its
\* picture and a *.dw.png name
DoneMerged(rec) ==
  rec.status = "done" =>
    /\ IsDefined(rec.vector) /\ Len(Get(rec.vector)) = VectorLength
    /\ IsDefined(rec.check)
    /\ rec.width = Some(rec.file.w)
    /\ rec.height = Some(rec.file.h)
    /\ HasDwPng(rec.filename)

\* C18: when the remote call of a record returns a well-formed response the
\* record gets status done, the 38 coordinates of the response in order as
\* landmarks, the coerced check flag, the width and height of its picture
\* and a *.dw.png filename; and the done records are still so in what the
\* batch returns and in the collection.
C18_WellFormedResponseMerged ==
  /\ [][\A b \in 1..Len(batches) : \A k \in 1..Len(batches[b].tasks) :
         \A resp \in AllResponses :
           (WellFormed(resp) /\ fetchDone(b, k, resp)) =>
             MergedFrom(batches'[b].tasks[k].rec, resp)]_vars
  /\ [](\A i \in 1..Len(imageFiles) : DoneMerged(imageFiles[i]))

\* C18 witness: the collection holds a done record whose flag came from the
\* string "False" and whose picture was converted from a JPEG.
C18_Witness ==
  \E i \in 1..Len(imageFiles) :
    /\ imageFiles[i].status = "done"
    /\ imageFiles[i].check = Some(FALSE)
    /\ Get(imageFiles[i].vector)[1] = 500
    /\ imageFiles[i].file.size > 100
    /\ imageFiles[i].width = Some(4)

\* the response arrived and is not well-formed: a non-2xx status, or coords
\* that are not 38 finite numbers
Malformed(resp) == resp.arrived /\ ~WellFormed(resp)

\* C19: a response with a non-2xx status, or whose coords are not exactly 38
\* finite numbers, fails that record only: the record gets status error and
\* has no landmarks, and the other records of the batch are as they were.
C19_MalformedResponseFailsRecord ==
  [][\A b \in 1..Len(batches) : \A k \in 1..Len(batches[b].tasks) :
       \A resp \in AllResponses :
         (Malformed(resp) /\ fetchDone(b, k, resp)) =>
           /\ batches'[b].tasks[k].rec.status = "error"
           /\ ~IsDefined(batches'[b].tasks[k].rec.vector)
           /\ \A j \in 1..Len(batches[b].tasks) :
                j # k => batches'[b].tasks[j] = batches[b].tasks[j]
    ]_vars

\* C20: a batch with no images is a no-op: processImagesWithBackend returns
\* the empty list at once, so processImages on an empty collection leaves
\* the processing state, the batches in flight and the (empty) collection
\* as they are.
C20_EmptyBatchChangesNothing ==
  [][(imageFiles = <<>> /\ processImages) =>
       /\ processing' = processing
       /\ batches' = batches
       /\ started' = started
       /\ imageFiles' = <<>>
    ]_vars

\* C20 witness: processImages was called on the collection a reset had
\* emptied while a batch was running: the review step shows no record, and
\* the progress is still that of the running batch.
C20_Witness ==
  /\ step = "review"
  /\ imageFiles = <<>>
  /\ started = 1
  /\ Len(batches) = 1
  /\ processing = [inProgress |-> TRUE, completed |-> 0, total |-> 1]

\* C23: crc32 of the 9 ASCII bytes of "123456789" is 0xCBF43926.
C23_CrcCheckValue ==
  (call.op = "crc32" /\ call.returned /\ call.input = CheckBytes) =>
    call.output = <<203, 244, 57, 38>>

\* C23 witness: crc32 has returned for "123456789", and for the empty array
\* and "a" it gives the values every CRC-32 gives (0 and 0xE8B7BE43).
C23_Witness ==
  /\ call.op = "crc32" /\ call.returned /\ call.input = CheckBytes
  /\ crc32(<<>>) = <<0, 0, 0, 0>>
  /\ crc32(<<97>>) = <<232, 183, 190, 67>>

\* the offsets of the complete chunks met when walking the chunk list of a
\* PNG file from offset on
RECURSIVE ChunkOffsets(_, _)
ChunkOffsets(png, offset) ==
  IF offset + 12 > Len(png) THEN {}
  ELSE IF png[offset + 1] >= 128 THEN {}
  ELSE LET length == WordValue(SubSeq(png, offset + 1, offset + 4)) IN
       IF length > Len(png) - offset - 12 THEN {}
       ELSE {offset} \cup ChunkOffsets(png, offset + 12 + length)

HasSignature(png) == Len(png) >= 8 /\ SubSeq(png, 1, 8) = PNG_SIGNATURE

HasIend(png) ==
  \E offset \in ChunkOffsets(png, 8) :
    SubSeq(png, offset + 5, offset + 8) = TypeIEND

\* C21: addPngTextChunk returns its input as it is when the input is shorter
\* than 8 bytes, does not start with the PNG signature, or has no complete
\* IEND chunk on its chunk list.
C21_NotPngReturnedUnchanged ==
  (/\ call.op = "addPngTextChunk"
   /\ call.returned
   /\ ~HasSignature(call.input.pngData) \/ ~HasIend(call.input.pngData))
    => call.output = call.input.pngData

\* C21 witness: a file with the signature and a header chunk, whose IEND
\* chunk lacks its last byte, has come back unchanged.
C21_Witness ==
  /\ call.op = "addPngTextChunk"
  /\ call.returned
  /\ call.input.pngData = SubSeq(PngHeaderIend, 1, Len(PngHeaderIend) - 1)
  /\ call.output = call.input.pngData

\* reading an archive: numbers stored low byte first at a 0-based offset
ReadUint16LE(bytes, at) == bytes[at + 1] + 256 * bytes[at + 2]
ReadUint32LE(bytes, at) ==
  bytes[at + 1] + 256 * (bytes[at + 2] + 256 * (bytes[at + 3] + 256 * bytes[at + 4]))

\* the end-of-central-directory record: the last 22 bytes
EndOfCentralDirectory(zip) ==
  LET at == Len(zip) - 22 IN
  [signature |-> SubSeq(zip, at + 1, at + 4),
   count |-> ReadUint16LE(zip, at + 10),
   centralSize |-> ReadUint32LE(zip, at + 12),
   centralOffset |-> ReadUint32LE(zip, at + 16)]

\* the central directory read from offset at on, count headers
RECURSIVE ReadCentral(_, _, _)
ReadCentral(zip, at, count) ==
  IF count = 0 THEN <<>>
  ELSE LET nameLength == ReadUint16LE(zip, at + 28) IN
       <<[signature |-> SubSeq(zip, at + 1, at + 4),
          size |-> ReadUint32LE(zip, at + 24),
          compressedSize |-> ReadUint32LE(zip, at + 20),
          localOffset |-> ReadUint32LE(zip, at + 42),
          name |-> SubSeq(zip, at + 47, at + 46 + nameLength),
          end |-> at + 46 + nameLength]>>
       \o ReadCentral(zip, at + 46 + nameLength, count - 1)

\* the local header at offset at is that of the entry named so, and the
\* data of that length follows it
LocalHeaderAt(zip, at, name, data) ==
  /\ SubSeq(zip, at + 1, at + 4) = <<80, 75, 3, 4>>
  /\ ReadUint32LE(zip, at + 22) = Len(data)
  /\ ReadUint16LE(zip, at + 26) = Len(name)
  /\ SubSeq(zip, at + 31, at + 30 + Len(name)) = name
  /\ SubSeq(zip, at + 31 + Len(name), at + 30 + Len(name) + Len(data)) = data

\* the archive reads back as entries named by names (UTF-8), in order
ReadsBackAs(zip, entries, names) ==
  LET end == EndOfCentralDirectory(zip)
      central == ReadCentral(zip, end.centralOffset, end.count)
  IN /\ end.signature = <<80, 75, 5, 6>>
     /\ end.count = Len(entries)
     /\ end.centralOffset + end.centralSize = Len(zip) - 22
     /\ Len(central) = Len(entries)
     /\ \A i \in 1..Len(entries) :
          /\ central[i].signature = <<80, 75, 1, 2>>
          /\ central[i].name = names[i]
          /\ central[i].size = Len(entries[i].data)
          /\ central[i].compressedSize = Len(entries[i].data)
          /\ LocalHeaderAt(zip, central[i].localOffset, names[i], entries[i].data)
          /\ i = 1 => central[i].localOffset = 0
          /\ i > 1 => central[i].localOffset > central[i - 1].localOffset
     /\ Len(entries) > 0 => central[Len(entries)].end = Len(zip) - 22

\* C22 as stated: the archive reads back with the names as submitted.
C22_ZipRoundTripSameNames ==
  (call.op = "createZipBlob" /\ call.returned) =>
    ReadsBackAs(call.output, call.input,
                [i \in 1..Len(call.input) |-> encode(call.input[i].name)])

\* C22: the archive createZipBlob builds reads back: the end record gives
\* the number of entries and the offset and size of the central directory,
\* and the central directory gives, in the order submitted, the names (with
\* every backslash turned into a slash) and the data sizes, each with the
\* offset of the local header of that entry.
C22_ZipRoundTrip ==
  (call.op = "createZipBlob" /\ call.returned) =>
    ReadsBackAs(call.output, call.input,
                [i \in 1..Len(call.input) |->
                   encode(ReplaceBackslashes(call.input[i].name))])

\* C22 witness: an archive of two entries with data, the second with a
\* two-byte name, has been built.
C22_Witness ==
  /\ call.op = "createZipBlob" /\ call.returned
  /\ Len(call.input) = 2
  /\ call.input[1].data = <<1, 2>>
  /\ call.input[2].name = <<233>>
  /\ call.input[2].data = <<1, 2>>
  /\ Len(call.output) = (30 + 5 + 2) + (30 + 2 + 2) + (46 + 5) + (46 + 2) + 22

\* |a - b|
Distance(a, b) == IF a >= b THEN a - b ELSE b - a

\* target is within one pixel of edge * UPLOAD_MAX_EDGE / longestEdge
WithinOnePixel(target, edge, longestEdge) ==
  Distance(target * longestEdge, edge * UPLOAD_MAX_EDGE) <= longestEdge

\* C24: resizeImageForUpload returns the file as it is when the longest
\* edge is at most 256; otherwise the longest edge of the target is 256 and
\* the other edge is within one pixel of the proportional value; 4000x2000
\* gives 256x128.
C24_ResizeTarget ==
  (call.op = "resizeImageForUpload" /\ call.returned
   /\ call.input.width > 0 /\ call.input.height > 0) =>
    LET width == call.input.width
        height == call.input.height
        longestEdge == Max(width, height)
    IN IF longestEdge <= 256
         THEN call.output = [returned |-> call.input.file]
         ELSE /\ DOMAIN call.output = {"canvas"}
              /\ Max(call.output.canvas.width, call.output.canvas.height) = 256
              /\ width >= height => call.output.canvas.width = 256
              /\ height >= width => call.output.canvas.height = 256
              /\ WithinOnePixel(call.output.canvas.width, width, longestEdge)
              /\ WithinOnePixel(call.output.canvas.height, height, longestEdge)
              /\ (width = 4000 /\ height = 2000) =>
                   call.output.canvas = [width |-> 256, height |-> 128]

\* C24 witness: 4000x2000 has been given its target, 256x128.
C24_Witness ==
  /\ call.op = "resizeImageForUpload" /\ call.returned
  /\ call.input.width = 4000 /\ call.input.height = 2000
  /\ call.output = [canvas |-> [width |-> 256, height |-> 128]]

\* the header fields when x and y of each point are interleaved
CsvHeadersInterleaved ==
  <<<<"f","i","l","e">>>>
    \o [k \in 1..38 |-> <<(IF k % 2 = 1 THEN "x" ELSE "y")>>
                          \o NumberToString((k + 1) \div 2)]

\* the fields of the row of a record when x and y of each point are
\* interleaved: the name, then the 38 numbers in the order of the vector
InterleavedValues(img) ==
  <<img.filename>>
    \o [k \in 1..38 |->
          IF IsDefined(img.vector) /\ k <= Len(Get(img.vector))
            THEN RoundToString(Get(img.vector)[k])
            ELSE <<>>]

\* C25: the CSV export has the header row file,x1,y1,x2,y2,...,x19,y19, one
\* row per record in the order of the collection with its columns in that
\* order, and an empty field for every missing coordinate (every field
\* between quotes, as the export writes them).
C25_CsvInterleaved ==
  (call.op = "exportCsv" /\ call.returned) =>
    call.output =
      Join(<<CsvLine(CsvHeadersInterleaved)>>
             \o [i \in 1..Len(call.input) |->
                   CsvLine(InterleavedValues(call.input[i]))],
           <<"\n">>)

\* the indexes (0-based) of the flagged records
FlaggedIndexes == {i \in 0..(Len(imageFiles) - 1) : Flagged(imageFiles[i + 1])}

\* the least element of a non-empty set of numbers
Least(S) == CHOOSE x \in S : \A y \in S : x <= y

\* C26: the next-flagged operation cycles over the flagged records: from a
\* flagged record the cursor goes to the next flagged record after it in
\* the order of the collection, or round to the first flagged one; from a
\* record that is not flagged it goes to the first flagged record.
C26_NextFlaggedCycles ==
  [][(FlaggedIndexes # {} /\ nextFlagged) =>
       IF reviewIndex \in FlaggedIndexes
            /\ \E i \in FlaggedIndexes : i > reviewIndex
         THEN reviewIndex' = Least({i \in FlaggedIndexes : i > reviewIndex})
         ELSE reviewIndex' = Least(FlaggedIndexes)
    ]_vars

\* C26 witness: of three records the first is not flagged and the other two
\* are, and the cursor has come to the third.
C26_Witness ==
  /\ step = "review"
  /\ FlaggedIndexes = {1, 2}
  /\ Len(imageFiles) = 3
  /\ reviewIndex = 2

\* the batch of b as it is after the step, if it is still in flight
SameBatchAfter(b) == {c \in 1..Len(batches') : batches'[c].id = batches[b].id}

\* C27: overlapping batches do not disturb each other's progress: while a
\* batch runs, also when a second batch is started through
\* addFilesForReview, total stays the number of that batch's records and
\* completed never decreases and grows only with that batch's records.
C27_BatchesDoNotInterfere ==
  [][\A b \in 1..Len(batches) : \A c \in SameBatchAfter(b) :
       /\ processing.total = Len(batches[b].tasks)
       /\ processing'.total = Len(batches[b].tasks)
       /\ processing'.completed >= processing.completed
       /\ processing'.completed - processing.completed
            = FinishedCount(batches'[c].tasks) - FinishedCount(batches[b].tasks)
    ]_vars

\* C28: inProgress is true whenever a batch has records that are not
\* finished; the end of one batch does not clear it while another batch
\* that overlaps it still runs.
C28_InProgressWhileAnyBatchRuns ==
  (\E b \in 1..Len(batches) : ~AllFinished(batches[b].tasks))
    => processing.inProgress

\* C29: once the batches have been merged into the collection, no two
\* records of the collection have the same filename up to letter case,
\* also when batches overlap or the collection changes while a batch runs.
C29_MergedNamesUnique ==
  (step = "review" /\ started > 0 /\ batches = <<>>) =>
    \A i \in 1..Len(imageFiles) : \A j \in (i + 1)..Len(imageFiles) :
      toLowerCase(imageFiles[i].filename) # toLowerCase(imageFiles[j].filename)

\* the step merges the results of a batch started by processImages
MergesProcessBatch ==
  \E b \in 1..Len(batches) :
    /\ ReadyToSettle(b)
    /\ batches[b].kind = "process"
    /\ batches' = RemoveAt(batches, b)

\* C30: what the user and the dimension effect did to the collection while
\* a batch started by processImages ran is still there after its merge:
\* the merge puts results in the place of records, so it neither brings
\* back a removed record nor drops an appended one (the number of records
\* stays), a record appended by addFilesForReview is kept as it is, and a
\* record that had its dimensions keeps them.
C30_MergeKeepsMutations ==
  [][MergesProcessBatch =>
       /\ Len(imageFiles') = Len(imageFiles)
       /\ \A i \in 1..Len(imageFiles) :
            imageFiles[i].status # "new" =>
              \E j \in 1..Len(imageFiles') : imageFiles'[j] = imageFiles[i]
       /\ \A i \in 1..Len(imageFiles) : \A j \in 1..Len(imageFiles') :
            (/\ imageFiles'[j].previewUrl = imageFiles[i].previewUrl
             /\ IsDefined(imageFiles[i].width))
              => IsDefined(imageFiles'[j].width)
    ]_vars

\* a batch is still in flight in the upload step: the collection has been
\* reset since the batch was started (processImages leaves the upload step
\* and only resetAll comes back to it)
ResetDuringBatch == step = "upload" /\ batches # <<>>

\* C31: after clearFiles or resetAll no record that existed before comes
\* back into the collection, and no record of the collection references a
\* handle that has been released, also when a batch that was in flight at
\* the reset settles afterwards: the records the collection gets after the
\* reset carry handles created after it.
C31_ResetIsFinal ==
  [][ResetDuringBatch =>
       /\ \A j \in 1..Len(imageFiles') :
            \/ imageFiles'[j].previewUrl \in Urls(imageFiles)
            \/ imageFiles'[j].previewUrl >= nextUrl
       /\ \A j \in 1..Len(imageFiles') : imageFiles'[j].previewUrl \notin revoked'
    ]_vars

\* C32: removeFile deletes exactly the one record it is aimed at: the
\* collection afterwards is the collection before without that record,
\* the others unchanged and in their order, and a name that no record has
\* leaves the collection as it is.
C32_RemoveExactlyOne ==
  [][\A name \in Range(Filenames(imageFiles)) \cup {NameAbsent} :
       removeFile(name) =>
         IF name \in Range(Filenames(imageFiles))
           THEN \E i \in 1..Len(imageFiles) :
                  /\ imageFiles[i].filename = name
                  /\ imageFiles' = RemoveAt(imageFiles, i)
           ELSE imageFiles' = imageFiles
    ]_vars

\* C33: in the review step the cursor points at a record whenever there is
\* one, whatever the user does with the previous, next, select, arrow-key
\* and delete operations.
C33_CursorInBounds ==
  (step = "review" /\ imageFiles # <<>>) =>
    (0 <= reviewIndex /\ reviewIndex < Len(imageFiles))

\* C34: a record of the collection has a landmark vector only if its
\* status is done and an error message only if its status is error; a
\* record with status new or error carries no landmarks.
C34_FieldsMatchStatus ==
  \A i \in 1..Len(imageFiles) :
    /\ IsDefined(imageFiles[i].vector) => imageFiles[i].status = "done"
    /\ IsDefined(imageFiles[i].error) => imageFiles[i].status = "error"

\* the base of a candidate ends in "(n)": the root before it and n
HasCounter(base) == CounterStart(base) > 0
RootOf(base) ==
  IF HasCounter(base) THEN SubSeq(base, 1, CounterStart(base) - 1) ELSE base
CounterOf(base) == ParseDigits(SubSeq(base, CounterStart(base) + 1, Len(base) - 1))

\* the counter the search starts at: max(2, n + 1) after "(n)", else 2
StartOf(base) ==
  IF HasCounter(base) THEN Max(2, CounterOf(base) + 1) ELSE 2

\* C35: when the candidate is already used, ensureUniqueFilenameFromSet
\* splits off the extension (.dw.png as a whole), starts the counter at
\* max(2, n + 1) when the base ends in "(n)" and at 2 otherwise, and
\* returns root(k)ext for the least k from that start on whose lower-case
\* form is not in the used set.
C35_LeastFreeCounter ==
  [][\A candidate \in DesiredNames :
       (toLowerCase(candidate) \in call.used /\ ensureUnique(candidate)) =>
         LET parts == splitFilename(candidate)
             root == RootOf(parts.base)
             start == StartOf(parts.base)
         IN
         \E k \in start..(start + Cardinality(call.used)) :
           /\ LastName' = Candidate(root, k, parts.ext)
           /\ toLowerCase(Candidate(root, k, parts.ext)) \notin call.used
           /\ \A j \in start..(k - 1) :
                toLowerCase(Candidate(root, j, parts.ext)) \in call.used
    ]_vars

\* C35 witness: against a used set holding a.png, a(2).png, a(10).png and
\* a.dw.png, the candidates a(9).png (twice) and A.dw.png have been given
\* a(9).png, a(11).png and A(2).dw.png.
C35_Witness ==
  /\ call.op = "ensureUnique"
  /\ call.candidates = << <<"a","(","9",")",".","p","n","g">>,
                          <<"a","(","9",")",".","p","n","g">>,
                          <<"A",".","d","w",".","p","n","g">> >>
  /\ call.names = << <<"a","(","9",")",".","p","n","g">>,
                     <<"a","(","1","1",")",".","p","n","g">>,
                     <<"A","(","2",")",".","d","w",".","p","n","g">> >>

C37_FailedConversionNotFatal ==
  [][\A b \in 1..Len(batches) : \A k \in 1..Len(batches[b].tasks) :
       (Waiting(b, k, "convert") /\ convertDone(b, k, FALSE)) =>
         /\ batches'[b].tasks[k].rec = batches[b].tasks[k].rec
         /\ revoked' = revoked
         /\ batches'[b].tasks[k].pc \in {"probe", "resize", "fetch"}
         /\ batches'[b].tasks[k].rec.status = "new"
    ]_vars

\* C37 witness: a record whose file is still the JPEG the user picked, with
\* a handle that has not been released, is done and holds landmarks.
C37_Witness ==
  \E i \in 1..Len(imageFiles) :
    /\ imageFiles[i].file = FileJ
    /\ imageFiles[i].status = "done"
    /\ IsDefined(imageFiles[i].vector)
    /\ imageFiles[i].previewUrl \notin revoked

\* the offset of the first IEND chunk on the chunk list of a PNG file
FirstIend(png) ==
  Least({offset \in ChunkOffsets(png, 8) :
           SubSeq(png, offset + 5, offset + 8) = TypeIEND})

\* a tEXt chunk around a payload: length, type, payload and the CRC-32 of
\* type and payload, numbers with the high byte first
ExpectedChunk(payload) ==
  ToWord(Len(payload)) \o TypeTEXt \o payload \o crc32(TypeTEXt \o payload)

\* the call of addPngTextChunk has returned, and its input was a PNG file
\* with the signature and a complete IEND chunk
PngChunkAdded ==
  /\ call.op = "addPngTextChunk"
  /\ call.returned
  /\ HasSignature(call.input.pngData)
  /\ HasIend(call.input.pngData)

\* the output is the input with the chunk around the payload put in before
\* the first IEND chunk
InsertedBeforeIend(payload) ==
  LET png == call.input.pngData
      p == FirstIend(png)
  IN call.output = SubSeq(png, 1, p) \o ExpectedChunk(payload)
                     \o SubSeq(png, p + 1, Len(png))

\* C38 as stated: the payload is keyword, a zero byte and text, one byte
\* for each character, and the output is 12 + length(keyword) + 1 +
\* length(text) bytes longer than the input.
C38_ChunkOfCharacters ==
  PngChunkAdded =>
    /\ InsertedBeforeIend(call.input.keyword \o <<0>> \o call.input.text)
    /\ Len(call.output) = Len(call.input.pngData) + 12
                            + Len(call.input.keyword) + 1 + Len(call.input.text)

\* C38: for a PNG file with the signature and a complete IEND chunk,
\* addPngTextChunk returns the input with a new chunk put in before the
\* first IEND chunk; the chunk is the payload length in 4 bytes, the type
\* tEXt, the payload (keyword in UTF-8, a zero byte, text in UTF-8) and the
\* CRC-32 of type and payload, so that the output is 12 + 1 + the UTF-8
\* lengths of keyword and text longer than the input.
C38_ChunkBeforeIend ==
  PngChunkAdded =>
    /\ InsertedBeforeIend(encode(call.input.keyword) \o <<0>>
                            \o encode(call.input.text))
    /\ Len(call.output) = Len(call.input.pngData) + 12
                            + Len(encode(call.input.keyword)) + 1
                            + Len(encode(call.input.text))

\* C38 witness: the file with two IEND chunks has been given the keyword
\* "k" and the text e-acute; the output is 16 bytes longer and the chunk
\* sits at offset 8, before the first IEND chunk.
C38_Witness ==
  /\ PngChunkAdded
  /\ call.input.pngData = PngAfterIend
  /\ call.input.keyword = <<107>>
  /\ call.input.text = <<233>>
  /\ Len(call.output) = Len(PngAfterIend) + 16
  /\ SubSeq(call.output, 9, 20) = <<0, 0, 0, 4, 116, 69, 88, 116, 107, 0, 195, 169>>
  /\ SubSeq(call.output, 25, Len(call.output)) = SubSeq(PngAfterIend, 9, Len(PngAfterIend))

\* C39: an effective updatePoint on record i and point p changes only the
\* two coordinates of point p and the check flag of record i: the other
\* coordinates of the record, its other fields and every other record are
\* as before, and the collection keeps its length and order.
C39_EditTouchesOnePoint ==
  [][\A imageIndex \in 0..MaxIndex : \A pointIndex \in EditPoints :
       \A x \in EditCoords : \A y \in EditCoords :
         (/\ EditApplies(imageFiles, imageIndex, pointIndex)
          /\ updatePoint(imageIndex, pointIndex, x, y)) =>
           LET before == imageFiles[imageIndex + 1]
               after == imageFiles'[imageIndex + 1]
           IN
           /\ Len(imageFiles') = Len(imageFiles)
           /\ \A j \in 1..Len(imageFiles) :
                j # imageIndex + 1 => imageFiles'[j] = imageFiles[j]
           /\ [after EXCEPT !.vector = before.vector, !.check = before.check] = before
           /\ Len(Get(after.vector)) = Len(Get(before.vector))
           /\ \A c \in 1..Len(Get(before.vector)) :
                c \notin {2 * pointIndex + 1, 2 * pointIndex + 2} =>
                  Get(after.vector)[c] = Get(before.vector)[c]
    ]_vars

\* C39 witness: the last point of an analysed record has been moved to
\* (3, 3); the 36 other coordinates are those of the response, and the
\* record is done as before.
C39_Witness ==
  /\ edits > 0
  /\ \E i \in 1..Len(imageFiles) :
       /\ imageFiles[i].status = "done"
       /\ IsDefined(imageFiles[i].vector)
       /\ Get(imageFiles[i].vector)[VectorLength - 1] = 3
       /\ Get(imageFiles[i].vector)[VectorLength] = 3
       /\ \A c \in 1..(VectorLength - 2) : Get(imageFiles[i].vector)[c] = 1

\* C40: the loop of addPngTextChunk that walks the chunks ends for every
\* array of bytes, also with chunks that announce no data or more than is
\* left: every pass that stays in the loop raises the offset, and the loop
\* is left at the first chunk that does not fit in the array.
C40_ChunkWalkTerminates ==
  /\ (call.op = "chunkWalk") ~> (call.run.pc # "loop")
  /\ [][chunkWalk =>
          /\ call'.run.pc = "loop" => call'.run.offset > call.run.offset
          /\ (\/ call.run.offset + 12 > Len(call.pngData)
              \/ call.run.offset \notin ChunkOffsets(call.pngData, call.run.offset))
               => (call'.run.pc = "after" /\ call'.run.insertOffset = -1)
       ]_vars

\* C40 witness: the walk has passed a chunk and has been left at a chunk
\* announcing more data than the array holds, with nothing found.
C40_Witness ==
  /\ call.op = "chunkWalk"
  /\ call.pngData = PNG_SIGNATURE \o Chunk(<<73, 72, 68, 82>>, <<1>>)
                      \o SubSeq(Chunk(TypeIEND, <<>>), 1, 11)
  /\ call.run = [pc |-> "after", offset |-> 21, insertOffset |-> -1]

====
